---- MODULE Spec2Model ----
(***************************************************************************)
(* Booking tools of the voice agent (app/lib/calcom_tools.py), the Cal.com *)
(* client they call (app/lib/calcom_client.py) and the Eastern/UTC time    *)
(* conversion they rest on (app/lib/time_utils.py).                        *)
(*                                                                         *)
(* A naive datetime is an integer: the seconds since 2026-01-01T00:00:00   *)
(* on its own clock (UTC or Eastern wall clock).  A date-time STRING is a  *)
(* record of its printed fields, so that formatting and parsing are real   *)
(* conversions.  The calendar window is 2025..2027 (no leap year).         *)
(***************************************************************************)
EXTENDS Integers, Sequences, FiniteSets, TLC

VARIABLES
    store,        \* the scheduling service's bookings (sequence of records)
    email_state,  \* calcom_tools._email_state["email"], shared by all sessions
    default_email, \* DEFAULT_EMAIL, given to create_calcom_tools
    pc,           \* per session: where the running tool call is suspended
    call,         \* per session: the tool call and its arguments
    loc,          \* per session: the locals of the running tool call
    out,          \* per session: what the tool call gave back to its caller
    log,          \* the requests the client has sent to the service, in order
    tin,          \* time-conversion harness: the input value
    tres,         \* time-conversion harness: the result of the conversion
    agent,        \* per session: its DefaultAgent (agent.py)
    audio,        \* the AudioSessionManager of a session and the session's audio output
    mem           \* the MemoryManager: a retrieve_memories call and the backends' calls

\* the state of agent.py's DefaultAgent, of AudioSessionManager and of MemoryManager
managers == <<agent, audio, mem>>

vars == <<store, email_state, default_email, pc, call, loc, out, log, tin, tres, agent, audio, mem>>

-----------------------------------------------------------------------------
(* Calendar arithmetic of datetime (ordinal <-> year, month, day).          *)

SecPerMin == 60
SecPerHour == 3600
SecPerDay == 86400
DaysPerYear == 365
BaseYear == 2026

\* days before the first of each month, non-leap year (datetime._DAYS_BEFORE_MONTH)
CumDays == <<0, 31, 59, 90, 120, 151, 181, 212, 243, 273, 304, 334, 365>>

DaysInMonth(m) == CumDays[m + 1] - CumDays[m]

\* datetime(Y, m, d, H, M, S) as seconds since 2026-01-01T00:00:00
MkNaive(Y, m, d, H, M, S) ==
    ((Y - BaseYear) * DaysPerYear + CumDays[m] + (d - 1)) * SecPerDay
        + H * SecPerHour + M * SecPerMin + S

\* dt.date() as a day ordinal, dt.hour, dt.minute, dt.second
DateOf(t) == t \div SecPerDay
HourOf(t) == (t % SecPerDay) \div SecPerHour
MinuteOf(t) == (t % SecPerHour) \div SecPerMin
SecondOf(t) == t % SecPerMin

YearOf(t) == BaseYear + (DateOf(t) \div DaysPerYear)
MonthOf(t) ==
    LET doy == DateOf(t) % DaysPerYear
    IN  CHOOSE m \in 1..12 : CumDays[m] <= doy /\ doy < CumDays[m + 1]
DayOf(t) == (DateOf(t) % DaysPerYear) - CumDays[MonthOf(t)] + 1

-----------------------------------------------------------------------------
(* pytz.timezone("America/New_York"): transition table and conversions.     *)

EST == -18000
EDT == -14400

\* tz._utc_transition_times (naive UTC) and the utcoffset in force from each
UtcTransitionTimes ==
    << MkNaive(2024, 11, 3, 6, 0, 0),
       MkNaive(2025, 3, 9, 7, 0, 0),
       MkNaive(2025, 11, 2, 6, 0, 0),
       MkNaive(2026, 3, 8, 7, 0, 0),
       MkNaive(2026, 11, 1, 6, 0, 0),
       MkNaive(2027, 3, 14, 7, 0, 0),
       MkNaive(2027, 11, 7, 6, 0, 0) >>
TransitionInfo == <<EST, EDT, EST, EDT, EST, EDT, EST>>

\* max(0, bisect_right(self._utc_transition_times, dt) - 1), 1-based
TransitionIdx(u) ==
    LET n == Cardinality({i \in 1..Len(UtcTransitionTimes) : UtcTransitionTimes[i] <= u})
    IN  IF n = 0 THEN 1 ELSE n

\* the utcoffset DstTzInfo.fromutc applies to the naive UTC value u
OffsetAtUtc(u) == TransitionInfo[TransitionIdx(u)]

\* FromUtc with the standard-time offset all year
FromUtc_standard_only(u) == u + EST

\* dt_utc.astimezone(EASTERN_TZ): the Eastern wall clock of a UTC instant
FromUtc(u) == u + OffsetAtUtc(u)

\* the tzinfos DstTzInfo.localize finds consistent with the wall clock t
PossibleOffsets(t) ==
    { o \in {OffsetAtUtc(t - SecPerDay), OffsetAtUtc(t + SecPerDay)} :
        OffsetAtUtc(t - o) = o }

\* EASTERN_TZ.localize(dt) with the default is_dst=False: the utcoffset given
\* to the wall clock t.  A wall clock that never happened takes the offset of
\* six hours earlier; a repeated one takes standard time.
\* LocalizeOffset with the standard-time offset all year
LocalizeOffset_standard_only(t) == EST

RECURSIVE LocalizeOffset(_)
LocalizeOffset(t) ==
    LET P == PossibleOffsets(t)
    IN  IF Cardinality(P) = 1 THEN CHOOSE o \in P : TRUE
        ELSE IF P = {} THEN LocalizeOffset(t - 6 * SecPerHour)
        ELSE EST

\* ToUtc with localize(is_dst=True): a repeated wall clock takes daylight time
ToUtc_is_dst(t) ==
    t - (IF Cardinality(PossibleOffsets(t)) = 2 THEN EDT ELSE LocalizeOffset(t))

\* EASTERN_TZ.localize(dt).astimezone(pytz.UTC) as a naive UTC value
ToUtc(t) == t - LocalizeOffset(t)

-----------------------------------------------------------------------------
(* Date-time strings.                                                       *)

\* dt_utc.strftime("%Y-%m-%dT%H:%M:%SZ"): the printed fields of a UTC value
Strftime(u) ==
    [Y |-> YearOf(u), m |-> MonthOf(u), d |-> DayOf(u),
     H |-> HourOf(u), M |-> MinuteOf(u), S |-> SecondOf(u)]

\* datetime.fromisoformat(s.replace('Z', '+00:00')) as a naive UTC value
FromIsoFormat(s) == MkNaive(s.Y, s.m, s.d, s.H, s.M, s.S)

\* The formats convert_to_utc_iso tries, in its order.  A text is a record
\* [shape, Y, m, d, h, mi, s, ap]: its layout and the numbers written in it
\* (h is the hour as written, ap is "AM", "PM" or "" when absent).
formats ==
    << "%Y-%m-%d %H:%M:%S", "%Y-%m-%d %H:%M", "%Y-%m-%dT%H:%M:%S",
       "%Y-%m-%dT%H:%M", "%m/%d/%Y %H:%M", "%m/%d/%Y %I:%M %p",
       "%m/%d/%Y %I:%M:%S %p", "%B %d, %Y %I:%M %p",
       "%B %d, %Y %I:%M:%S %p", "%b %d, %Y %I:%M %p",
       "%b %d, %Y %I:%M:%S %p", "%Y-%m-%d %I:%M %p",
       "%Y-%m-%d %I:%M:%S %p" >>

TwelveHourFormats == { formats[i] : i \in {6, 7, 8, 9, 10, 11, 12, 13} }
SecondsFormats == { formats[i] : i \in {1, 3, 7, 9, 11, 13} }

\* whether datetime.strptime(text, fmt) succeeds: the layout is fmt's and
\* every field is in the range its directive accepts
StrptimeMatches(text, fmt) ==
    /\ text.shape = fmt
    /\ text.m \in 1..12
    /\ text.d \in 1..DaysInMonth(text.m)
    /\ text.mi \in 0..59
    /\ text.s \in 0..59
    /\ IF fmt \in TwelveHourFormats
       THEN text.h \in 1..12 /\ text.ap \in {"AM", "PM"}
       ELSE text.h \in 0..23 /\ text.ap = ""
    /\ (fmt \notin SecondsFormats) => text.s = 0

\* StrptimeValue that adds 12 to every PM hour and leaves AM hours as written
\* (12:xx PM and 12:xx AM come out wrong)
StrptimeValue_plain_hour(text, fmt) ==
    LET H == IF fmt \in TwelveHourFormats
             THEN text.h + (IF text.ap = "PM" THEN 12 ELSE 0)
             ELSE text.h
    IN  MkNaive(text.Y, text.m, text.d, H, text.mi, text.s)

\* the naive datetime strptime builds (%I with %p gives the 24-hour value)
StrptimeValue(text, fmt) ==
    LET H == IF fmt \in TwelveHourFormats
             THEN (text.h % 12) + (IF text.ap = "PM" THEN 12 ELSE 0)
             ELSE text.h
    IN  MkNaive(text.Y, text.m, text.d, H, text.mi, text.s)

NoText == [shape |-> "", Y |-> 0, m |-> 0, d |-> 0, h |-> 0, mi |-> 0, s |-> 0, ap |-> ""]
NoIso == [Y |-> 0, m |-> 0, d |-> 0, H |-> 0, M |-> 0, S |-> 0]

\* ValueError whose message leaves the input text out
ValueError_anonymous(text) == [type |-> "ValueError", status |-> 0, tokens |-> {}, text |-> NoText]

\* An exception: its Python type, the HTTP status it carries (0: none), the
\* marker texts its message holds, and the input text its message quotes.
ValueError(text) == [type |-> "ValueError", status |-> 0, tokens |-> {}, text |-> text]

\* convert_to_utc_iso(eastern_time_str): [ok, val] with the UTC string, or
\* [ok = FALSE, exc] with the ValueError that names the input
convert_to_utc_iso(text) ==
    LET hits == { i \in 1..Len(formats) : StrptimeMatches(text, formats[i]) }
    IN  IF hits = {}
        THEN [ok |-> FALSE, val |-> NoIso, exc |-> ValueError(text)]
        ELSE LET first == CHOOSE i \in hits : \A j \in hits : i <= j
                 dt == StrptimeValue(text, formats[first])
             IN  [ok |-> TRUE, val |-> Strftime(ToUtc(dt)), exc |-> ValueError(NoText)]

\* format_eastern_time(dt): "%A, %B %d, %Y at %I:%M %p Eastern Time" prints
\* the date, the 12-hour clock and AM/PM (weekday left out), and no seconds
format_eastern_time(t) ==
    [shape |-> "%A, %B %d, %Y at %I:%M %p Eastern Time",
     Y |-> YearOf(t), m |-> MonthOf(t), d |-> DayOf(t),
     h |-> IF HourOf(t) % 12 = 0 THEN 12 ELSE HourOf(t) % 12,
     mi |-> MinuteOf(t), s |-> 0,
     ap |-> IF HourOf(t) < 12 THEN "AM" ELSE "PM"]

\* convert_utc_to_eastern(utc_iso_str), for a well-formed UTC string
convert_utc_to_eastern(s) == format_eastern_time(FromUtc(FromIsoFormat(s)))

-----------------------------------------------------------------------------
(* Exceptions, outcomes and the bookings of the scheduling service.         *)

NoExc == [type |-> "", status |-> 0, tokens |-> {}, text |-> NoText]

\* Lower that leaves the text as it is (lower() forgotten)
Lower_identity(st) == st

\* str.lower() on the status texts the service uses
Lower(st) ==
    CASE st = "CANCELLED" -> "cancelled"
      [] st = "Cancelled" -> "cancelled"
      [] st = "ACCEPTED" -> "accepted"
      [] OTHER -> st

\* datetime.fromisoformat accepts the start text (else it raises ValueError)
IsoValid(iso) ==
    /\ iso.m \in 1..12
    /\ iso.d \in 1..DaysInMonth(iso.m)
    /\ iso.H \in 0..23 /\ iso.M \in 0..59 /\ iso.S \in 0..59

NoBooking == [uid |-> "", start |-> NoIso, status |-> "", email |-> ""]

\* what a tool call gave back: kind "return" with the message template used
\* (msg), the input text the message quotes, the identifier and the Eastern
\* time it shows and the exception whose text it embeds; kind "raise" when an
\* exception left the tool
NoOut == [kind |-> "none", msg |-> "", text |-> NoText, uid |-> "", shown |-> NoText, exc |-> NoExc]
Returned(msg, text, uid, shown, exc) ==
    [kind |-> "return", msg |-> msg, text |-> text, uid |-> uid, shown |-> shown, exc |-> exc]
Raised(exc) ==
    [kind |-> "raise", msg |-> "", text |-> NoText, uid |-> "", shown |-> NoText, exc |-> exc]

NoCall == [tool |-> "", uid |-> "", text |-> NoText, newtext |-> NoText, email |-> "", status |-> ""]
\* (e: the exception an "except ... as e" of the tool has caught)
NoLoc ==
    [filter_email |-> "", bookings |-> <<>>, matching |-> <<>>, uid |-> "",
     utc |-> NoIso, searched |-> FALSE, got |-> FALSE, existing_status |-> "", e |-> NoExc]

\* A DefaultAgent before entrypoint creates it: user_email is self.user_email,
\* chat the ids of chat_ctx.messages, stored_ids self._stored_message_ids,
\* tasks the delayed_store tasks that still sleep, ended whether
\* on_session_end ran
NoAgent ==
    [created |-> FALSE, user_email |-> "", chat |-> <<>>, stored_ids |-> {},
     tasks |-> 0, ended |-> FALSE]

\* AudioSessionManager.__init__ (mic_enabled = False) on a session whose audio
\* output is enabled; calls are the arguments of session.output.set_audio_enabled
\* so far, events the events handled so far
NoAudio == [mic_enabled |-> FALSE, audio_enabled |-> TRUE, calls |-> <<>>, events |-> <<>>]

\* MemoryManager: whether mem0_client and openmemory_manager are set, the
\* running retrieve_memories call, and the batches handed to store_messages
\* (r: pc, the arguments, the loop's attempt, the trace of backend calls and
\* sleeps, and what the call gave back: kind "list", "none" or "raise")
NoRetrieve ==
    [pc |-> "idle", user_id |-> "", max_retries |-> 0, attempt |-> 0,
     trace |-> <<>>, kind |-> "", result |-> <<>>]
NoMem == [mem0 |-> FALSE, openmemory |-> FALSE, r |-> NoRetrieve, stored |-> <<>>]

-----------------------------------------------------------------------------
(* CalComClient (calcom_client.py) and the service behind it.               *)

\* A fault of one request: the HTTP status of the error response, 0 for a
\* failure without a response (timeout, connection error); the details are
\* the marker texts the JSON body of the error response may hold.
FaultStatuses == {400, 404, 500, 0}
Details == {{}, {"not found"}, {"400"}}

StatusToken(status) ==
    CASE status = 400 -> {"400"}
      [] status = 404 -> {"404"}
      [] status = 500 -> {"500"}
      [] OTHER -> {}

ReasonTokens(status) ==
    CASE status = 400 -> {"400", "bad request"}
      [] status = 404 -> {"404", "not found"}
      [] status = 500 -> {"500"}
      [] OTHER -> {}

\* get_booking, create_booking, reschedule_booking, cancel_booking: an
\* HTTPStatusError becomes Exception("Cal.com API error (<status>): <detail>"),
\* any other exception is re-raised as it is
ClientError(status, detail) ==
    [type |-> "Exception", status |-> status,
     tokens |-> IF status = 0 THEN {} ELSE StatusToken(status) \cup detail,
     text |-> NoText]

\* get_all_bookings re-raises httpx's own exception, whose text is
\* "Client error '404 Not Found' for url ..."
ClientListError(status) ==
    [type |-> "Exception", status |-> status, tokens |-> ReasonTokens(status), text |-> NoText]

\* CalComClient.get_all_bookings on the response data: keep the bookings of
\* the email, and for status "upcoming" drop the cancelled ones
client_get_all_bookings(data, status, email) ==
    LET ByEmail(b) == Lower(email) = Lower(b.email)
        NotCancelled(b) == Lower(b.status) # "cancelled"
        mine == IF email # "" THEN SelectSeq(data, ByEmail) ELSE data
    IN  IF status = "upcoming" THEN SelectSeq(mine, NotCancelled) ELSE mine

\* the booking the service holds under uid (NoBooking when there is none)
Lookup(bookings, uid) ==
    IF \E i \in 1..Len(bookings) : bookings[i].uid = uid
    THEN bookings[CHOOSE i \in 1..Len(bookings) : bookings[i].uid = uid]
    ELSE NoBooking

\* the service's bookings after the booking uid was given status st
WithStatus(bookings, uid, st) ==
    [i \in 1..Len(bookings) |->
        IF bookings[i].uid = uid THEN [bookings[i] EXCEPT !.status = st] ELSE bookings[i]]

-----------------------------------------------------------------------------
(* Resolution by date/time (cancel_booking and reschedule_booking).         *)

MatchWindow == 30

Abs(x) == IF x < 0 THEN -x ELSE x

\* target_dt_eastern: the UTC string of the query converted back to Eastern
TargetEastern(utc_str) == FromUtc(FromIsoFormat(utc_str))

\* booking_dt_eastern of a booking whose start parses
BookingEastern(b) == FromUtc(FromIsoFormat(b.start))

\* time_diff on the minutes of the clock alone (the hours left out)
time_diff_minutes_only(b, target) ==
    Abs(MinuteOf(BookingEastern(b)) - MinuteOf(target))

\* abs((booking_hour * 60 + booking_minute) - (target_hour * 60 + target_minute))
time_diff(b, target) ==
    Abs((HourOf(BookingEastern(b)) * 60 + MinuteOf(BookingEastern(b)))
        - (HourOf(target) * 60 + MinuteOf(target)))

\* Matches with "<" for "<=" in the window test
Matches_strict_window(b, target) ==
    /\ Lower(b.status) # "cancelled"
    /\ b.start # NoIso
    /\ IsoValid(b.start)
    /\ DateOf(BookingEastern(b)) = DateOf(target)
    /\ time_diff(b, target) < MatchWindow

\* Matches without the test of the date
Matches_any_date(b, target) ==
    /\ Lower(b.status) # "cancelled"
    /\ b.start # NoIso
    /\ IsoValid(b.start)
    /\ time_diff(b, target) <= MatchWindow

\* Matches without the test of the window
Matches_any_time(b, target) ==
    /\ Lower(b.status) # "cancelled"
    /\ b.start # NoIso
    /\ IsoValid(b.start)
    /\ DateOf(BookingEastern(b)) = DateOf(target)

\* the test of the loop body: not cancelled, a start that parses, the
\* target's date, and a time within the window
Matches(b, target) ==
    /\ Lower(b.status) # "cancelled"
    /\ b.start # NoIso
    /\ IsoValid(b.start)
    /\ DateOf(BookingEastern(b)) = DateOf(target)
    /\ time_diff(b, target) <= MatchWindow

\* matching_bookings as the loop leaves it: (booking, time_diff) in list order
matching_bookings(bookings, target) ==
    LET Keep(b) == Matches(b, target)
        kept == SelectSeq(bookings, Keep)
    IN  [i \in 1..Len(kept) |-> [booking |-> kept[i], diff |-> time_diff(kept[i], target)]]

\* InsertByDiff of an unstable sort: an element goes before its equals
InsertByDiff_before_equals(x, sorted) ==
    LET k == Cardinality({i \in 1..Len(sorted) : sorted[i].diff < x.diff})
    IN  SubSeq(sorted, 1, k) \o <<x>> \o SubSeq(sorted, k + 1, Len(sorted))

\* list.sort(key=lambda x: x[1]) is stable: an element goes after the elements
\* whose key is less than or equal to its own
InsertByDiff(x, sorted) ==
    LET k == Cardinality({i \in 1..Len(sorted) : sorted[i].diff <= x.diff})
    IN  SubSeq(sorted, 1, k) \o <<x>> \o SubSeq(sorted, k + 1, Len(sorted))

\* SortByDiff that leaves the list in the order of the loop (sort forgotten)
SortByDiff_unsorted(seq) == seq

RECURSIVE SortByDiff(_)
SortByDiff(seq) ==
    IF seq = <<>> THEN <<>>
    ELSE InsertByDiff(seq[Len(seq)], SortByDiff(SubSeq(seq, 1, Len(seq) - 1)))

-----------------------------------------------------------------------------
(* Sessions and the steps shared by the tools.                              *)

\* conversation sessions of the process; Spec runs the tool calls of one
Sessions == {1, 2}
Foreground == {1}

\* a request the client sends to the service
Request(s, op, uid) == [sess |-> s, op |-> op, uid |-> uid]

\* the requests of kind op session s has sent
Sent(s, op) == { i \in 1..Len(log) : log[i].sess = s /\ log[i].op = op }

\* filter_email of the search: the shared state, else the default
\* (agent_instance is None in the tools agent.py creates)
SearchEmail == IF email_state # "" THEN email_state ELSE default_email

\* BySearch that searches whenever a date/time is given
BySearch_text_first(uid, text) == text # NoText

\* "if not booking_uid_to_cancel and date_time_eastern": search by date/time
\* only when no identifier is given
BySearch(uid, text) == uid = "" /\ text # NoText

\* NoEmail that tests for None only: the empty text passes
NoEmail_none_only(email) == FALSE

\* "if not filter_email", "if not email": no email, or the empty text (the
\* value of DEFAULT_EMAIL when the environment sets none)
NoEmail(email) == email = ""

\* start_eastern of a confirmation: convert_utc_to_eastern(start) when there
\* is a start text; the text itself when it does not parse
UnknownTime == [NoText EXCEPT !.shape = "Unknown time"]
ShownStart(start) ==
    IF start = NoIso THEN UnknownTime
    ELSE IF IsoValid(start) THEN convert_utc_to_eastern(start)
    ELSE [shape |-> "as received", Y |-> start.Y, m |-> start.m, d |-> start.d,
          h |-> start.H, mi |-> start.M, s |-> start.S, ap |-> ""]

\* a tool call of session s ends with outcome o
Finish(s, o) ==
    /\ pc' = [pc EXCEPT ![s] = "done"]
    /\ out' = [out EXCEPT ![s] = o]

\* Await of a client that sends every request a second time
Await_resend(s, label, op, uid) ==
    /\ pc' = [pc EXCEPT ![s] = label]
    /\ log' = Append(Append(log, Request(s, op, uid)), Request(s, op, uid))
    /\ UNCHANGED out

\* a tool call of session s sends a request and is suspended at label
Await(s, label, op, uid) ==
    /\ pc' = [pc EXCEPT ![s] = label]
    /\ log' = Append(log, Request(s, op, uid))
    /\ UNCHANGED out

\* The search of cancel_booking and reschedule_booking on the bookings the
\* client returned: [ok, bookings, matching (sorted), uid, out (when not ok)]
\* parse_msg is the message of the tool's own parse-error return.
Resolve(text, bookings, parse_msg) ==
    LET fail(o) == [ok |-> FALSE, matching |-> <<>>, uid |-> "", out |-> o]
        found(matching) ==
            IF matching = <<>>
            THEN fail(Returned("No upcoming booking found", text, "", NoText, NoExc))
            ELSE IF matching[1].booking.uid = ""
            THEN [fail(Returned("Found booking but could not get booking UID", text, "", NoText, NoExc))
                    EXCEPT !.matching = matching]
            ELSE [ok |-> TRUE, matching |-> matching, uid |-> matching[1].booking.uid, out |-> NoOut]
        search(r) ==
            IF ~r.ok
            THEN fail(Returned(parse_msg, text, "", NoText, r.exc))
            ELSE found(SortByDiff(matching_bookings(bookings, TargetEastern(r.val))))
    IN  search(convert_to_utc_iso(text))

-----------------------------------------------------------------------------
(* cancel_booking (calcom_tools.py 348-473).                                *)

\* cancel_except that handles the not-found case only and re-raises the rest
cancel_except_reraise(exc) ==
    IF "404" \in exc.tokens \/ "not found" \in exc.tokens
    THEN Returned("Error canceling booking - booking not found", NoText, "", NoText, NoExc)
    ELSE Raised(exc)

\* cancel_except that swallows the failure and reports the cancellation as
\* processed
cancel_except_processed(exc) ==
    Returned("Booking cancellation processed - please verify", NoText, "", NoText, NoExc)

\* the outer "except Exception" of cancel_booking
cancel_except(exc) ==
    IF "404" \in exc.tokens \/ "not found" \in exc.tokens
    THEN Returned("Error canceling booking - booking not found", NoText, "", NoText, NoExc)
    ELSE Returned("Error canceling booking", NoText, "", NoText, exc)

\* AlreadyCancelled without lower()
AlreadyCancelled_case_sensitive(existing_status) == existing_status = "cancelled"

\* existing_status.lower() == 'cancelled'
AlreadyCancelled(existing_status) == Lower(existing_status) = "cancelled"

\* lines 350-367 and 431-436: up to the first request
cancel_booking_begin(s, uid, text) ==
    /\ pc[s] = "idle"
    /\ call' = [call EXCEPT ![s] = [NoCall EXCEPT !.tool = "cancel_booking", !.uid = uid, !.text = text]]
    /\ UNCHANGED <<store, email_state, default_email, tin, tres, managers>>
    /\ IF BySearch(uid, text)
       THEN IF NoEmail(SearchEmail)
            THEN /\ Finish(s, Returned("Error: No email address provided", NoText, "", NoText, NoExc))
                 /\ UNCHANGED <<loc, log>>
            ELSE /\ Await(s, "cancel_list", "list", "")
                 /\ loc' = [loc EXCEPT ![s] = [NoLoc EXCEPT !.filter_email = SearchEmail]]
       ELSE IF uid = ""
            THEN /\ Finish(s, Returned("Error: Please provide either booking_uid or date_time_eastern", NoText, "", NoText, NoExc))
                 /\ UNCHANGED <<loc, log>>
            ELSE /\ Await(s, "cancel_get", "get", uid)
                 /\ loc' = [loc EXCEPT ![s] = [NoLoc EXCEPT !.uid = uid]]

\* lines 367-436: the bookings arrive (or the request fails); search
cancel_booking_listed(s, fault) ==
    /\ pc[s] = "cancel_list"
    /\ UNCHANGED <<store, email_state, default_email, call, tin, tres, managers>>
    /\ IF fault.failed
       THEN /\ Finish(s, cancel_except(ClientListError(fault.status)))
            /\ loc' = [loc EXCEPT ![s].e = ClientListError(fault.status)]
            /\ UNCHANGED log
       ELSE LET bookings == client_get_all_bookings(store, "upcoming", loc[s].filter_email)
                searched(res) ==
                    /\ loc' = [loc EXCEPT ![s].bookings = bookings, ![s].searched = TRUE,
                                          ![s].matching = res.matching, ![s].uid = res.uid,
                                          ![s].e = res.out.exc]
                    /\ IF res.ok
                       THEN Await(s, "cancel_get", "get", res.uid)
                       ELSE Finish(s, res.out) /\ UNCHANGED log
            IN  searched(Resolve(call[s].text, bookings, "Error parsing date/time"))

\* cancel_booking_checked behind a guard: a call that finds another session's
\* cancel request for the same identifier under way gives up
cancel_booking_checked_guarded(s, fault) ==
    /\ pc[s] = "cancel_get"
    /\ UNCHANGED <<store, email_state, default_email, call, tin, tres, managers>>
    /\ LET existing == Lookup(store, loc[s].uid)
           busy == \E t \in Sessions \ {s} : pc[t] = "cancel_call" /\ loc[t].uid = loc[s].uid
       IN  /\ ~fault.failed => existing # NoBooking
           /\ IF fault.failed
              THEN /\ Await(s, "cancel_call", "cancel", loc[s].uid)
                   /\ UNCHANGED loc
              ELSE /\ loc' = [loc EXCEPT ![s].got = TRUE, ![s].existing_status = existing.status]
                   /\ IF AlreadyCancelled(existing.status) \/ busy
                      THEN /\ Finish(s, Returned("This booking is already cancelled", NoText, "", NoText, NoExc))
                           /\ UNCHANGED log
                      ELSE Await(s, "cancel_call", "cancel", loc[s].uid)

\* lines 436-444: the pre-check of the booking's status, then the cancel request
cancel_booking_checked(s, fault) ==
    /\ pc[s] = "cancel_get"
    /\ UNCHANGED <<store, email_state, default_email, call, tin, tres, managers>>
    /\ LET existing == Lookup(store, loc[s].uid)
       IN  /\ ~fault.failed => existing # NoBooking
           /\ IF fault.failed
              THEN /\ Await(s, "cancel_call", "cancel", loc[s].uid)
                   /\ UNCHANGED loc
              ELSE /\ loc' = [loc EXCEPT ![s].got = TRUE, ![s].existing_status = existing.status]
                   /\ IF AlreadyCancelled(existing.status)
                      THEN /\ Finish(s, Returned("This booking is already cancelled", NoText, "", NoText, NoExc))
                           /\ UNCHANGED log
                      ELSE Await(s, "cancel_call", "cancel", loc[s].uid)

\* the status of the booking the service returns from a cancel request
CancelResultStatuses == {"cancelled", "CANCELLED", "accepted"}

\* cancel_booking_cancelled that reports the cancellation as successful
\* whatever status the service returns
cancel_booking_cancelled_any_status(s, fault, status) ==
    /\ pc[s] = "cancel_call"
    /\ UNCHANGED <<email_state, default_email, call, log, tin, tres, managers>>
    /\ LET existing == Lookup(store, loc[s].uid)
       IN  /\ ~fault.failed => existing # NoBooking
           /\ IF fault.failed
              THEN /\ Finish(s, cancel_except(ClientError(fault.status, fault.detail)))
                   /\ loc' = [loc EXCEPT ![s].e = ClientError(fault.status, fault.detail)]
                   /\ UNCHANGED store
              ELSE /\ store' = WithStatus(store, loc[s].uid, status)
                   /\ UNCHANGED loc
                   /\ Finish(s, Returned("Booking cancelled successfully", NoText, "",
                                         ShownStart(existing.start), NoExc))

\* lines 444-473: the service answers the cancel request
cancel_booking_cancelled(s, fault, status) ==
    /\ pc[s] = "cancel_call"
    /\ UNCHANGED <<email_state, default_email, call, log, tin, tres, managers>>
    /\ LET existing == Lookup(store, loc[s].uid)
       IN  /\ ~fault.failed => existing # NoBooking
           /\ IF fault.failed
              THEN /\ Finish(s, cancel_except(ClientError(fault.status, fault.detail)))
                   /\ loc' = [loc EXCEPT ![s].e = ClientError(fault.status, fault.detail)]
                   /\ UNCHANGED store
              ELSE /\ store' = WithStatus(store, loc[s].uid, status)
                   /\ UNCHANGED loc
                   /\ IF Lower(status) = "cancelled"
                      THEN Finish(s, Returned("Booking cancelled successfully", NoText, "",
                                              ShownStart(existing.start), NoExc))
                      ELSE Finish(s, Returned("Booking cancellation processed - please verify",
                                              NoText, "", NoText, NoExc))

-----------------------------------------------------------------------------
(* reschedule_booking (calcom_tools.py 245-345).                            *)

\* "except ValueError" and "except Exception" of reschedule_booking
reschedule_except(exc) ==
    IF exc.type = "ValueError"
    THEN Returned("Error rescheduling booking - invalid time format", exc.text, "", NoText, exc)
    ELSE IF "400" \in exc.tokens \/ "bad request" \in exc.tokens
    THEN Returned("Error rescheduling booking - bad request", NoText, "", NoText, exc)
    ELSE Returned("Error rescheduling booking", NoText, "", NoText, exc)

\* reschedule_send that sends the request without waiting for the new time to
\* convert
reschedule_send_unparsed(s, uid, newtext, l) ==
    LET r == convert_to_utc_iso(newtext)
    IN  /\ Await(s, "resched_call", "reschedule", uid)
        /\ loc' = [loc EXCEPT ![s] = [l EXCEPT !.uid = uid, !.utc = r.val]]

\* lines 326-328: convert the new time, then send the reschedule request
reschedule_send(s, uid, newtext, l) ==
    LET r == convert_to_utc_iso(newtext)
    IN  IF r.ok
        THEN /\ Await(s, "resched_call", "reschedule", uid)
             /\ loc' = [loc EXCEPT ![s] = [l EXCEPT !.uid = uid, !.utc = r.val]]
        ELSE /\ Finish(s, reschedule_except(r.exc))
             /\ loc' = [loc EXCEPT ![s] = [l EXCEPT !.uid = uid, !.e = r.exc]]
             /\ UNCHANGED log

\* lines 247-267 and 323-328: up to the first request
reschedule_booking_begin(s, uid, oldtext, newtext) ==
    /\ pc[s] = "idle"
    /\ call' = [call EXCEPT ![s] = [NoCall EXCEPT !.tool = "reschedule_booking", !.uid = uid,
                                                  !.text = oldtext, !.newtext = newtext]]
    /\ UNCHANGED <<store, email_state, default_email, tin, tres, managers>>
    /\ IF newtext = NoText
       THEN /\ Finish(s, Returned("Error: new_start_time_eastern is required", NoText, "", NoText, NoExc))
            /\ UNCHANGED <<loc, log>>
       ELSE IF BySearch(uid, oldtext)
       THEN IF NoEmail(SearchEmail)
            THEN /\ Finish(s, Returned("Error: No email address provided", NoText, "", NoText, NoExc))
                 /\ UNCHANGED <<loc, log>>
            ELSE /\ Await(s, "resched_list", "list", "")
                 /\ loc' = [loc EXCEPT ![s] = [NoLoc EXCEPT !.filter_email = SearchEmail]]
       ELSE IF uid = ""
       THEN /\ Finish(s, Returned("Error: Please provide either booking_uid or old_date_time_eastern", NoText, "", NoText, NoExc))
            /\ UNCHANGED <<loc, log>>
       ELSE reschedule_send(s, uid, newtext, NoLoc)

\* lines 267-328: the bookings arrive (or the request fails); search, then
\* convert the new time and send the reschedule request
reschedule_booking_listed(s, fault) ==
    /\ pc[s] = "resched_list"
    /\ UNCHANGED <<store, email_state, default_email, call, tin, tres, managers>>
    /\ IF fault.failed
       THEN /\ Finish(s, reschedule_except(ClientListError(fault.status)))
            /\ loc' = [loc EXCEPT ![s].e = ClientListError(fault.status)]
            /\ UNCHANGED log
       ELSE LET bookings == client_get_all_bookings(store, "upcoming", loc[s].filter_email)
                searched(res) ==
                    LET l == [loc[s] EXCEPT !.bookings = bookings, !.searched = TRUE,
                                            !.matching = res.matching, !.uid = res.uid,
                                            !.e = res.out.exc]
                    IN  IF res.ok
                        THEN reschedule_send(s, res.uid, call[s].newtext, l)
                        ELSE /\ Finish(s, res.out)
                             /\ loc' = [loc EXCEPT ![s] = l]
                             /\ UNCHANGED log
            IN  searched(Resolve(call[s].text, bookings, "Error parsing old date/time"))

\* the uid of the booking a reschedule or create request returns ("": the
\* response holds none)
ResultUids == {"n1", ""}

\* lines 328-345: the service answers the reschedule request
reschedule_booking_rescheduled(s, fault, result_uid) ==
    /\ pc[s] = "resched_call"
    /\ UNCHANGED <<email_state, default_email, call, log, tin, tres, managers>>
    /\ ~fault.failed => Lookup(store, loc[s].uid) # NoBooking
    /\ IF fault.failed
       THEN /\ Finish(s, reschedule_except(ClientError(fault.status, fault.detail)))
            /\ loc' = [loc EXCEPT ![s].e = ClientError(fault.status, fault.detail)]
            /\ UNCHANGED store
       ELSE /\ store' = WithStatus(store, loc[s].uid, "cancelled")
            /\ UNCHANGED loc
            /\ Finish(s, Returned("Booking rescheduled",  NoText,
                                  IF result_uid # "" THEN result_uid ELSE loc[s].uid,
                                  ShownStart(loc[s].utc), NoExc))

-----------------------------------------------------------------------------
(* get_all_bookings, get_booking, create_connect_meeting and                *)
(* create_discover_meeting (calcom_tools.py 15-242).                        *)

\* lines 19-31
get_all_bookings_begin(s, status, email) ==
    /\ pc[s] = "idle"
    /\ call' = [call EXCEPT ![s] = [NoCall EXCEPT !.tool = "get_all_bookings", !.status = status, !.email = email]]
    /\ UNCHANGED <<store, email_state, default_email, tin, tres, managers>>
    /\ LET filter_email == IF email # "" THEN email ELSE SearchEmail
       IN  IF NoEmail(filter_email)
           THEN /\ Finish(s, Returned("Error: No email address provided", NoText, "", NoText, NoExc))
                /\ UNCHANGED <<loc, log>>
           ELSE /\ Await(s, "bookings_list", "list", "")
                /\ loc' = [loc EXCEPT ![s] = [NoLoc EXCEPT !.filter_email = filter_email]]

\* lines 31-62
get_all_bookings_listed(s, fault) ==
    /\ pc[s] = "bookings_list"
    /\ UNCHANGED <<store, email_state, default_email, call, log, tin, tres, managers>>
    /\ IF fault.failed
       THEN /\ Finish(s, Returned("Error retrieving bookings", NoText, "", NoText, ClientListError(fault.status)))
            /\ loc' = [loc EXCEPT ![s].e = ClientListError(fault.status)]
       ELSE LET bookings == client_get_all_bookings(store, call[s].status, loc[s].filter_email)
            IN  /\ loc' = [loc EXCEPT ![s].bookings = bookings]
                /\ IF bookings = <<>>
                   THEN Finish(s, Returned("No bookings found", NoText, "", NoText, NoExc))
                   ELSE Finish(s, Returned("Found booking(s)", NoText, "", NoText, NoExc))

\* line 68
get_booking_begin(s, uid) ==
    /\ pc[s] = "idle"
    /\ call' = [call EXCEPT ![s] = [NoCall EXCEPT !.tool = "get_booking", !.uid = uid]]
    /\ UNCHANGED <<store, email_state, default_email, tin, tres, managers>>
    /\ Await(s, "booking_get", "get", uid)
    /\ loc' = [loc EXCEPT ![s] = [NoLoc EXCEPT !.uid = uid]]

\* the "except Exception" of get_booking
get_booking_except(exc, uid) ==
    IF "404" \in exc.tokens \/ "not found" \in exc.tokens
    THEN Returned("Error retrieving booking - booking not found", NoText, uid, NoText, NoExc)
    ELSE Returned("Error retrieving booking", NoText, "", NoText, exc)

\* lines 68-88
get_booking_got(s, fault) ==
    /\ pc[s] = "booking_get"
    /\ UNCHANGED <<store, email_state, default_email, call, log, tin, tres, managers>>
    /\ ~fault.failed => Lookup(store, loc[s].uid) # NoBooking
    /\ IF fault.failed
       THEN /\ Finish(s, get_booking_except(ClientError(fault.status, fault.detail), loc[s].uid))
            /\ loc' = [loc EXCEPT ![s].e = ClientError(fault.status, fault.detail)]
       ELSE /\ Finish(s, Returned("Retrieved booking details", NoText, "",
                                  ShownStart(Lookup(store, loc[s].uid).start), NoExc))
            /\ UNCHANGED loc

\* "except ValueError" and "except Exception" of create_*_meeting
create_except(exc) ==
    IF exc.type = "ValueError"
    THEN Returned("Error creating meeting - invalid time format", exc.text, "", NoText, exc)
    ELSE IF "400" \in exc.tokens \/ "bad request" \in exc.tokens
    THEN Returned("Error creating meeting - bad request", NoText, "", NoText, exc)
    ELSE Returned("Error creating meeting", NoText, "", NoText, exc)

\* lines 93-141 (tool: create_connect_meeting or create_discover_meeting)
create_meeting_begin(s, tool, text, attendee_email) ==
    /\ pc[s] = "idle"
    /\ call' = [call EXCEPT ![s] = [NoCall EXCEPT !.tool = tool, !.text = text, !.email = attendee_email]]
    /\ UNCHANGED <<store, email_state, default_email, tin, tres, managers>>
    /\ LET email == IF attendee_email # "" THEN attendee_email ELSE default_email
           r == convert_to_utc_iso(text)
       IN  IF NoEmail(email)
           THEN /\ Finish(s, Returned("Error: No email address provided", NoText, "", NoText, NoExc))
                /\ UNCHANGED <<loc, log>>
           ELSE IF ~r.ok
           THEN /\ Finish(s, create_except(r.exc))
                /\ loc' = [loc EXCEPT ![s] = [NoLoc EXCEPT !.e = r.exc]]
                /\ UNCHANGED log
           ELSE /\ Await(s, "create_call", "create", "")
                /\ loc' = [loc EXCEPT ![s] = [NoLoc EXCEPT !.filter_email = email, !.utc = r.val]]

\* lines 141-165: the service answers the create request
create_meeting_created(s, fault, result_uid) ==
    /\ pc[s] = "create_call"
    /\ UNCHANGED <<store, email_state, default_email, call, log, tin, tres, managers>>
    /\ IF fault.failed
       THEN /\ Finish(s, create_except(ClientError(fault.status, fault.detail)))
            /\ loc' = [loc EXCEPT ![s].e = ClientError(fault.status, fault.detail)]
       ELSE /\ Finish(s, Returned("Meeting created successfully", NoText, result_uid,
                                  ShownStart(loc[s].utc), NoExc))
            /\ UNCHANGED loc

-----------------------------------------------------------------------------
(* The inputs the specifications draw from.                                 *)

MaxBookings == 2

Owner == "ann@example.com"
Other == "bob@example.com"

UidAt == <<"b1", "b2", "b3", "b4">>
Statuses == {"accepted", "cancelled", "CANCELLED"}

Iso(Y, m, d, H, M, S) == [Y |-> Y, m |-> m, d |-> d, H |-> H, M |-> M, S |-> S]
BadIso == Iso(2026, 13, 1, 0, 0, 0)

\* texts a caller may give: "2026-07-15 2:00 PM", "2026-07-15 23:50",
\* "2026-07-20 10:00", "July 15, 2026 at 2:00 PM", "2026-03-08 02:30" (a
\* wall clock that the spring-forward skips) and "2026-11-01 01:30" (a wall
\* clock that the fall-back repeats)
Q1 == [shape |-> "%Y-%m-%d %I:%M %p", Y |-> 2026, m |-> 7, d |-> 15, h |-> 2, mi |-> 0, s |-> 0, ap |-> "PM"]
Q2 == [shape |-> "%Y-%m-%d %H:%M", Y |-> 2026, m |-> 7, d |-> 15, h |-> 23, mi |-> 50, s |-> 0, ap |-> ""]
N1 == [shape |-> "%Y-%m-%d %H:%M", Y |-> 2026, m |-> 7, d |-> 20, h |-> 10, mi |-> 0, s |-> 0, ap |-> ""]
QGap == [shape |-> "%Y-%m-%d %H:%M", Y |-> 2026, m |-> 3, d |-> 8, h |-> 2, mi |-> 30, s |-> 0, ap |-> ""]
QFall == [shape |-> "%Y-%m-%d %H:%M", Y |-> 2026, m |-> 11, d |-> 1, h |-> 1, mi |-> 30, s |-> 0, ap |-> ""]
QBad == [shape |-> "%B %d, %Y at %I:%M %p", Y |-> 2026, m |-> 7, d |-> 15, h |-> 2, mi |-> 0, s |-> 0, ap |-> "PM"]

\* starts of the service's bookings: July 15 13:30, 14:00, 14:30, 14:30:59
\* and 14:31 Eastern, July 16 14:00 and 00:10 Eastern, March 8 03:15 Eastern,
\* November 1 01:30 daylight time (an hour before 01:30 standard time), no
\* start, a start that does not parse
WorkflowStarts == { Iso(2026, 7, 15, 18, 0, 0) }
ResolveStarts ==
    { Iso(2026, 7, 15, 17, 30, 0), Iso(2026, 7, 15, 18, 0, 0), Iso(2026, 7, 15, 18, 30, 0),
      Iso(2026, 7, 15, 18, 31, 0), Iso(2026, 7, 16, 18, 0, 0), Iso(2026, 7, 16, 4, 10, 0),
      Iso(2026, 3, 8, 7, 15, 0), Iso(2026, 7, 15, 18, 30, 59), Iso(2026, 11, 1, 5, 30, 0),
      NoIso, BadIso }

\* the <<start, status>> pairs of the service's bookings: every status at the
\* workflow's start; for the search every start as an accepted booking, and
\* the starts 0 and 30 minutes from the 2:00 PM query as cancelled ones too
WorkflowEntries == WorkflowStarts \X Statuses
ResolveEntries ==
    (ResolveStarts \X {"accepted"})
        \cup ({Iso(2026, 7, 15, 18, 0, 0), Iso(2026, 7, 15, 18, 30, 0)} \X {"cancelled", "CANCELLED"})

\* the service's bookings: at most MaxBookings, each one of entries
Stores(entries) ==
    UNION { { [i \in 1..n |-> [uid |-> UidAt[i], start |-> f[i][1], status |-> f[i][2], email |-> Owner]] :
                f \in [1..n -> entries] } : n \in 0..MaxBookings }

NoFault == [failed |-> FALSE, status |-> 0, detail |-> {}]
Faults ==
    {NoFault} \cup { [failed |-> TRUE, status |-> st, detail |-> d] :
                        st \in FaultStatuses \ {0}, d \in Details }
              \cup { [failed |-> TRUE, status |-> 0, detail |-> {}] }
ResolveFaults == {NoFault, [failed |-> TRUE, status |-> 500, detail |-> {}]}

ArgUids == {"", "b1", "zz"}
ArgTexts == {NoText, Q1, QBad}
NewTexts == {NoText, N1, QBad}
ResolveTexts == {Q1, Q2, QGap, QFall, QBad}

NoInput == [kind |-> "", v |-> 0]
NoResult == [done |-> FALSE, v |-> 0]

NoToolCall ==
    /\ pc = [s \in Sessions |-> "idle"]
    /\ call = [s \in Sessions |-> NoCall]
    /\ loc = [s \in Sessions |-> NoLoc]
    /\ out = [s \in Sessions |-> NoOut]
    /\ log = <<>>

\* no agent created, the audio manager and the memory manager as constructed
NoManagers ==
    /\ agent = [s \in Sessions |-> NoAgent]
    /\ audio = NoAudio
    /\ mem = NoMem

-----------------------------------------------------------------------------
(* Spec: one session calls one tool, with every argument and every answer   *)
(* of the service.                                                          *)

Init ==
    /\ store \in Stores(WorkflowEntries)
    /\ default_email \in {"", Owner}
    /\ email_state \in {default_email, Owner, Other}
    /\ NoToolCall
    /\ tin = NoInput /\ tres = NoResult
    /\ NoManagers

Next ==
    \E s \in Foreground :
        \/ \E uid \in ArgUids, text \in ArgTexts : cancel_booking_begin(s, uid, text)
        \/ \E f \in Faults : cancel_booking_listed(s, f)
        \/ \E f \in Faults : cancel_booking_checked(s, f)
        \/ \E f \in Faults, st \in CancelResultStatuses : cancel_booking_cancelled(s, f, st)
        \/ \E uid \in ArgUids, old \in ArgTexts, new \in NewTexts : reschedule_booking_begin(s, uid, old, new)
        \/ \E f \in Faults : reschedule_booking_listed(s, f)
        \/ \E f \in Faults, u \in ResultUids : reschedule_booking_rescheduled(s, f, u)
        \/ \E st \in {"upcoming", "cancelled"}, e \in {"", Owner} : get_all_bookings_begin(s, st, e)
        \/ \E f \in Faults : get_all_bookings_listed(s, f)
        \/ \E uid \in ArgUids \ {""} : get_booking_begin(s, uid)
        \/ \E f \in Faults : get_booking_got(s, f)
        \/ \E tool \in {"create_connect_meeting", "create_discover_meeting"},
              text \in NewTexts \ {NoText}, e \in {"", Owner} : create_meeting_begin(s, tool, text, e)
        \/ \E f \in Faults, u \in ResultUids : create_meeting_created(s, f, u)

Spec == Init /\ [][Next]_vars

-----------------------------------------------------------------------------
(* SpecResolve: cancel_booking and reschedule_booking called with a         *)
(* date/time, against every list of bookings of ResolveEntries.             *)

InitResolve ==
    /\ store \in Stores(ResolveEntries)
    /\ default_email = Owner
    /\ email_state = Owner
    /\ NoToolCall
    /\ tin = NoInput /\ tres = NoResult
    /\ NoManagers

NextResolve ==
    \E s \in Foreground :
        \/ \E text \in ResolveTexts : cancel_booking_begin(s, "", text)
        \/ \E f \in ResolveFaults : cancel_booking_listed(s, f)
        \/ \E f \in ResolveFaults : cancel_booking_checked(s, f)
        \/ \E f \in ResolveFaults : cancel_booking_cancelled(s, f, "cancelled")
        \/ \E text \in ResolveTexts : reschedule_booking_begin(s, "", text, N1)
        \/ \E f \in ResolveFaults : reschedule_booking_listed(s, f)
        \/ \E f \in ResolveFaults : reschedule_booking_rescheduled(s, f, "n1")

SpecResolve == InitResolve /\ [][NextResolve]_vars

-----------------------------------------------------------------------------
(* SpecTime: the conversions of time_utils.py on civil date-times and UTC   *)
(* instants around the 2026 transitions (March 8, November 1).              *)

SampleDates == { <<1, 15>>, <<3, 7>>, <<3, 8>>, <<3, 9>>, <<7, 15>>, <<10, 31>>, <<11, 1>>, <<11, 2>>, <<12, 31>> }
SampleMinutes == {0, 30, 59}
SampleSeconds == {0, 59}
SampleCivil ==
    { MkNaive(2026, md[1], md[2], H, M, S) :
        md \in SampleDates, H \in {0, 1, 2, 3, 12, 23}, M \in SampleMinutes, S \in SampleSeconds }
SampleInstants ==
    { MkNaive(2026, md[1], md[2], H, M, S) :
        md \in SampleDates, H \in {0, 4, 5, 6, 7, 8, 18, 23}, M \in SampleMinutes, S \in SampleSeconds }

\* a civil date-time written as "%Y-%m-%d %H:%M:%S"
CivilText(t) ==
    [shape |-> "%Y-%m-%d %H:%M:%S", Y |-> YearOf(t), m |-> MonthOf(t), d |-> DayOf(t),
     h |-> HourOf(t), mi |-> MinuteOf(t), s |-> SecondOf(t), ap |-> ""]

\* the civil date-time t written in the layout fmt (12-hour layouts write the
\* hour as 12, 1..11 with AM or PM)
Spell(t, fmt) ==
    [shape |-> fmt, Y |-> YearOf(t), m |-> MonthOf(t), d |-> DayOf(t),
     h |-> IF fmt \notin TwelveHourFormats THEN HourOf(t)
           ELSE IF HourOf(t) % 12 = 0 THEN 12 ELSE HourOf(t) % 12,
     mi |-> MinuteOf(t), s |-> SecondOf(t),
     ap |-> IF fmt \notin TwelveHourFormats THEN ""
            ELSE IF HourOf(t) < 12 THEN "AM" ELSE "PM"]

\* the accepted spellings of the sample civil date-times: every layout, and
\* for a time with seconds the layouts that write seconds
SampleSpellings ==
    { [kind |-> "text", v |-> t, fmt |-> formats[i]] :
        t \in SampleCivil, i \in 1..Len(formats) }
    \ { x \in [kind : {"text"}, v : SampleCivil, fmt : { formats[i] : i \in 1..Len(formats) }] :
            SecondOf(x.v) # 0 /\ x.fmt \notin SecondsFormats }

InitTime ==
    /\ store = <<>>
    /\ default_email = ""
    /\ email_state = ""
    /\ NoToolCall
    /\ tin \in { [kind |-> "local", v |-> t] : t \in SampleCivil }
             \cup { [kind |-> "instant", v |-> u] : u \in SampleInstants }
             \cup SampleSpellings
    /\ tres = NoResult
    /\ NoManagers

\* Eastern text -> UTC string -> Eastern, as cancel_booking lines 380-384
local_round_trip ==
    /\ tin.kind = "local" /\ ~tres.done
    /\ tres' = [done |-> TRUE, v |-> TargetEastern(convert_to_utc_iso(CivilText(tin.v)).val)]
    /\ UNCHANGED <<store, email_state, default_email, pc, call, loc, out, log, tin, managers>>

\* UTC string -> Eastern (convert_utc_to_eastern lines 26-39) -> UTC string
instant_round_trip ==
    /\ tin.kind = "instant" /\ ~tres.done
    /\ LET eastern == FromUtc(FromIsoFormat(Strftime(tin.v)))
       IN  tres' = [done |-> TRUE, v |-> FromIsoFormat(convert_to_utc_iso(CivilText(eastern)).val)]
    /\ UNCHANGED <<store, email_state, default_email, pc, call, loc, out, log, tin, managers>>

\* convert_to_utc_iso on a spelling of a civil date-time
convert_spelling ==
    /\ tin.kind = "text" /\ ~tres.done
    /\ tres' = [done |-> TRUE, v |-> convert_to_utc_iso(Spell(tin.v, tin.fmt))]
    /\ UNCHANGED <<store, email_state, default_email, pc, call, loc, out, log, tin, managers>>

NextTime == local_round_trip \/ instant_round_trip \/ convert_spelling

SpecTime == InitTime /\ [][NextTime]_vars

-----------------------------------------------------------------------------
(* DefaultAgent (agent.py): creation and the user's turns.                  *)

\* the most messages a conversation holds
MaxMessages == 3

\* DefaultAgent.__init__ (agent.py 141-147), called by entrypoint (line 432):
\* the new agent's email is the default, which it also writes to _email_state
agent_created(s) ==
    /\ ~agent[s].created
    /\ agent' = [agent EXCEPT ![s] = [NoAgent EXCEPT !.created = TRUE, !.user_email = default_email]]
    /\ email_state' = default_email
    /\ UNCHANGED <<store, default_email, pc, call, loc, out, log, tin, tres, audio, mem>>

\* the framework adds a message (of the user or the assistant) to chat_ctx
message_added(s) ==
    /\ agent[s].created /\ ~agent[s].ended
    /\ Len(agent[s].chat) < MaxMessages
    /\ agent' = [agent EXCEPT ![s].chat = Append(@, Len(@) + 1)]
    /\ UNCHANGED <<store, email_state, default_email, pc, call, loc, out, log, tin, tres, audio, mem>>

\* on_user_turn_completed (agent.py 265-377) for a message that mentions
\* email ("": none): lines 271-279 take the email, lines 330-377 create the
\* delayed_store task when Mem0 is configured
on_user_turn_completed(s, email) ==
    /\ agent[s].created /\ ~agent[s].ended
    /\ agent[s].tasks < MaxMessages
    /\ agent' = [agent EXCEPT
                    ![s].user_email = IF email # "" THEN email ELSE @,
                    ![s].tasks = IF mem.mem0 THEN @ + 1 ELSE @]
    /\ email_state' = IF email # "" THEN email ELSE email_state
    /\ UNCHANGED <<store, default_email, pc, call, loc, out, log, tin, tres, audio, mem>>

\* MemoryManager.store_messages(messages, user_id) (memory_manager.py
\* 127-168): the batch is handed to the backends' store operations
store_messages(m, by, ids) == [m EXCEPT !.stored = Append(@, [by |-> by, ids |-> ids])]

\* delayed_store (agent.py 335-372) once its sleep is over: the messages of
\* chat_ctx whose id is not in _stored_message_ids are marked and stored
delayed_store(s) ==
    /\ agent[s].tasks > 0
    /\ LET NotStored(id) == id \notin agent[s].stored_ids
           formatted == SelectSeq(agent[s].chat, NotStored)
       IN  /\ agent' = [agent EXCEPT ![s].tasks = @ - 1,
                                      ![s].stored_ids = @ \cup { formatted[i] : i \in 1..Len(formatted) }]
           /\ mem' = IF formatted # <<>> THEN store_messages(mem, "delayed_store", formatted) ELSE mem
    /\ UNCHANGED <<store, email_state, default_email, pc, call, loc, out, log, tin, tres, audio>>

\* on_session_end (agent.py 386-415): every message of chat_ctx is stored
on_session_end(s) ==
    /\ agent[s].created /\ ~agent[s].ended
    /\ agent' = [agent EXCEPT ![s].ended = TRUE]
    /\ mem' = IF mem.mem0 /\ agent[s].chat # <<>>
              THEN store_messages(mem, "on_session_end", agent[s].chat)
              ELSE mem
    /\ UNCHANGED <<store, email_state, default_email, pc, call, loc, out, log, tin, tres, audio>>

-----------------------------------------------------------------------------
(* SpecStore: one session's conversation of at most MaxMessages messages,   *)
(* its user turns, its delayed_store tasks in every order, its end.         *)

InitStore ==
    /\ store = <<>>
    /\ default_email \in {"", Owner}
    /\ email_state = default_email
    /\ NoToolCall
    /\ tin = NoInput /\ tres = NoResult
    /\ agent = [s \in Sessions |-> NoAgent]
    /\ audio = NoAudio
    /\ mem \in { [NoMem EXCEPT !.mem0 = m] : m \in BOOLEAN }

NextStore ==
    \E s \in Foreground :
        \/ agent_created(s)
        \/ message_added(s)
        \/ on_user_turn_completed(s, "")
        \/ delayed_store(s)
        \/ on_session_end(s)

SpecStore == InitStore /\ [][NextStore]_vars

-----------------------------------------------------------------------------
(* SpecSessions: two conversation sessions of one process, each with its    *)
(* agent, its user and its cancel_booking or reschedule_booking call, in    *)
(* every interleaving of their steps (a tool call yields at its requests).  *)

\* all sessions act
Concurrent == Sessions

\* the email the user of session s books with and mentions
UserOf(s) == IF s = 1 THEN Owner ELSE Other

\* the service holds one booking of each user, both at 2:00 PM on July 15
SessionStore ==
    << [uid |-> "b1", start |-> Iso(2026, 7, 15, 18, 0, 0), status |-> "accepted", email |-> Owner],
       [uid |-> "b2", start |-> Iso(2026, 7, 15, 18, 0, 0), status |-> "accepted", email |-> Other] >>

\* agent.py line 135: _email_state["email"] = DEFAULT_EMAIL at import
InitSessions ==
    /\ store = SessionStore
    /\ default_email \in {"", Owner}
    /\ email_state = default_email
    /\ NoToolCall
    /\ tin = NoInput /\ tres = NoResult
    /\ NoManagers

NextSessions ==
    \E s \in Concurrent :
        \/ agent_created(s)
        \/ on_user_turn_completed(s, UserOf(s))
        \/ agent[s].created /\ cancel_booking_begin(s, "b1", NoText)
        \/ agent[s].created /\ cancel_booking_begin(s, "", Q1)
        \/ cancel_booking_listed(s, NoFault)
        \/ cancel_booking_checked(s, NoFault)
        \/ \E f \in ResolveFaults : cancel_booking_cancelled(s, f, "cancelled")
        \/ agent[s].created /\ reschedule_booking_begin(s, "", Q1, N1)
        \/ reschedule_booking_listed(s, NoFault)
        \/ reschedule_booking_rescheduled(s, NoFault, "n1")

SpecSessions == InitSessions /\ [][NextSessions]_vars

-----------------------------------------------------------------------------
(* AudioSessionManager (audio_manager.py) and SpecAudio: every sequence of  *)
(* at most MaxEvents mic events and track checks.                           *)

MaxEvents == 5

\* session.output.set_audio_enabled(enabled) inside try/except: the call is
\* made; when it raises, the output stays as it was
set_audio_enabled(a, enabled, raises) ==
    [a EXCEPT !.calls = Append(@, enabled),
              !.audio_enabled = IF raises THEN @ ELSE enabled]

\* the manager has handled event ev
Handled(a, ev) == [a EXCEPT !.events = Append(@, ev)]

\* handle_mic_unmuted (lines 27-53)
handle_mic_unmuted(raises) ==
    /\ Len(audio.events) < MaxEvents
    /\ audio' = IF ~audio.mic_enabled
                THEN Handled(set_audio_enabled([audio EXCEPT !.mic_enabled = TRUE], TRUE, raises), "unmuted")
                ELSE Handled(audio, "unmuted")
    /\ UNCHANGED <<store, email_state, default_email, pc, call, loc, out, log, tin, tres, agent, mem>>

\* handle_mic_muted that cuts the agent's audio off as well
handle_mic_muted_cut_off ==
    /\ Len(audio.events) < MaxEvents
    /\ audio' = IF audio.mic_enabled
                THEN Handled(set_audio_enabled([audio EXCEPT !.mic_enabled = FALSE], FALSE, FALSE), "muted")
                ELSE Handled(audio, "muted")
    /\ UNCHANGED <<store, email_state, default_email, pc, call, loc, out, log, tin, tres, agent, mem>>

\* handle_mic_muted (lines 55-72)
handle_mic_muted ==
    /\ Len(audio.events) < MaxEvents
    /\ audio' = IF audio.mic_enabled
                THEN Handled([audio EXCEPT !.mic_enabled = FALSE], "muted")
                ELSE Handled(audio, "muted")
    /\ UNCHANGED <<store, email_state, default_email, pc, call, loc, out, log, tin, tres, agent, mem>>

\* check_existing_mic_tracks (lines 112-158): found_mic says whether a
\* participant has published a microphone track
check_existing_mic_tracks(found_mic, raises) ==
    /\ Len(audio.events) < MaxEvents
    /\ audio' = IF found_mic
                THEN IF ~audio.mic_enabled
                     THEN Handled(set_audio_enabled([audio EXCEPT !.mic_enabled = TRUE], TRUE, raises), "check")
                     ELSE Handled(audio, "check")
                ELSE Handled(set_audio_enabled(audio, TRUE, raises), "check")
    /\ UNCHANGED <<store, email_state, default_email, pc, call, loc, out, log, tin, tres, agent, mem>>

\* agent.py 500 and 581: the manager as constructed, the audio output enabled
InitAudio ==
    /\ store = <<>>
    /\ default_email = ""
    /\ email_state = ""
    /\ NoToolCall
    /\ tin = NoInput /\ tres = NoResult
    /\ NoManagers

NextAudio ==
    \/ \E raises \in BOOLEAN : handle_mic_unmuted(raises)
    \/ handle_mic_muted
    \/ \E found_mic \in BOOLEAN, raises \in BOOLEAN : check_existing_mic_tracks(found_mic, raises)

SpecAudio == InitAudio /\ [][NextAudio]_vars

-----------------------------------------------------------------------------
(* MemoryManager.retrieve_memories (memory_manager.py 35-125) over          *)
(* OpenMemoryManager.search_memories (openmemory_manager.py 76-139) and the *)
(* Mem0 client, and SpecMemory: one call with every answer of the backends. *)

MaxRetries == 2
MaxMemories == 2

\* the user whose memories are asked for
Users == {Owner}

\* a memory in a backend's answer: the user_id it carries at top level and in
\* its metadata ("": none); NotADict is an entry whose .get raises
NotADict == [uid |-> "?", meta |-> "?"]
Memory(uid, meta) == [uid |-> uid, meta |-> meta]
Memories ==
    { Memory(Owner, ""), Memory("", Owner), Memory("", ""), Memory(Other, ""),
      Memory("", Other), Memory(Owner, Other), NotADict }

\* what a backend answers to one search: an exception, or a list of memories
Failed == [kind |-> "error", items |-> <<>>]
Answers ==
    {Failed} \cup { [kind |-> "ok", items |-> q] :
                        q \in UNION { [1..n -> Memories] : n \in 0..MaxMemories } }

\* the call gives result back to its caller
Return(r, kind, result) == [r EXCEPT !.pc = "done", !.kind = kind, !.result = result]

\* lines 68-72: without a Mem0 client the call returns []; else the retry
\* loop starts
FallBackToMem0(r) ==
    IF ~mem.mem0 THEN Return(r, "list", <<>>)
    ELSE [r EXCEPT !.pc = "mem0", !.attempt = 0]

\* Retry that never gives up
Retry_always(attempt, max_retries) == TRUE

\* "if attempt < max_retries": wait and try again
Retry(attempt, max_retries) == attempt < max_retries

\* an entry of the trace: a search sent to a backend and what came back
\* ("error": an exception, "nothing": no memories, "memories": a list of
\* records, "not records": a list with an entry that is no record), or a sleep
Search(backend, answer) ==
    [call |-> backend,
     got |-> IF answer.kind = "error" THEN "error"
             ELSE IF answer.items = <<>> THEN "nothing"
             ELSE IF \E i \in 1..Len(answer.items) : answer.items[i] = NotADict THEN "not records"
             ELSE "memories"]
Slept == [call |-> "sleep", got |-> ""]

\* "await asyncio.sleep(wait_time); continue": the next attempt of
\* range(max_retries + 1), or the end of the loop
Continue(r) == [r EXCEPT !.trace = Append(@, Slept), !.attempt = @ + 1]
LoopEnds(r) == ~(r.attempt < r.max_retries + 1)

\* lines 56-64: the memories of OpenMemory in the expected format, under the
\* requested user_id (answered: the backend's entry)
Formatted(items, user_id) ==
    [i \in 1..Len(items) |->
        [user_id |-> user_id, metadata_user_id |-> items[i].meta, answered |-> items[i]]]

\* lines 91-97: the memories of Mem0 whose user_id (at top level, else in the
\* metadata) is the requested one or absent
Filtered(items, user_id) ==
    LET mem_user_id(m) == IF m.uid # "" THEN m.uid ELSE m.meta
        Keep(m) == mem_user_id(m) = user_id \/ mem_user_id(m) = ""
        kept == SelectSeq(items, Keep)
    IN  [i \in 1..Len(kept) |->
            [user_id |-> kept[i].uid, metadata_user_id |-> kept[i].meta, answered |-> kept[i]]]

\* retrieve_memories_begin that asks Mem0 first whenever it is configured
retrieve_memories_begin_mem0_first(user_id, max_retries) ==
    /\ mem.r.pc = "idle"
    /\ LET r == [NoRetrieve EXCEPT !.user_id = user_id, !.max_retries = max_retries]
       IN  mem' = [mem EXCEPT !.r = IF mem.mem0 THEN [r EXCEPT !.pc = "mem0"]
                                     ELSE IF mem.openmemory THEN [r EXCEPT !.pc = "openmemory"]
                                     ELSE Return(r, "list", <<>>)]
    /\ UNCHANGED <<store, email_state, default_email, pc, call, loc, out, log, tin, tres, agent, audio>>

\* lines 35-46 and 68-72: the call starts
retrieve_memories_begin(user_id, max_retries) ==
    /\ mem.r.pc = "idle"
    /\ LET r == [NoRetrieve EXCEPT !.user_id = user_id, !.max_retries = max_retries]
       IN  mem' = [mem EXCEPT !.r = IF mem.openmemory THEN [r EXCEPT !.pc = "openmemory"]
                                     ELSE FallBackToMem0(r)]
    /\ UNCHANGED <<store, email_state, default_email, pc, call, loc, out, log, tin, tres, agent, audio>>

\* one attempt of OpenMemoryManager.search_memories (102-139) and, when it
\* returns, lines 54-72 of MemoryManager.retrieve_memories: memories are
\* formatted and returned; when formatting raises, or nothing was found, the
\* call falls back to Mem0
openmemory_answered(answer) ==
    /\ mem.r.pc = "openmemory"
    /\ LET r == [mem.r EXCEPT !.trace = Append(@, Search("openmemory", answer))]
           got == Search("openmemory", answer).got
       IN  mem' = [mem EXCEPT !.r =
                IF got = "memories" THEN Return(r, "list", Formatted(answer.items, r.user_id))
                ELSE IF got = "not records" THEN FallBackToMem0(r)
                ELSE IF Retry(r.attempt, r.max_retries)
                THEN IF LoopEnds(Continue(r)) THEN FallBackToMem0(Continue(r)) ELSE Continue(r)
                ELSE FallBackToMem0(r)]
    /\ UNCHANGED <<store, email_state, default_email, pc, call, loc, out, log, tin, tres, agent, audio>>

\* one attempt of the Mem0 loop (lines 72-125): an entry that is no record
\* raises in the filter and counts as an error; a loop that ends without a
\* return makes the function return None
mem0_answered(answer) ==
    /\ mem.r.pc = "mem0"
    /\ LET r == [mem.r EXCEPT !.trace = Append(@, Search("mem0", answer))]
           got == Search("mem0", answer).got
       IN  mem' = [mem EXCEPT !.r =
                IF got = "memories" THEN Return(r, "list", Filtered(answer.items, r.user_id))
                ELSE IF Retry(r.attempt, r.max_retries)
                THEN IF LoopEnds(Continue(r)) THEN Return(Continue(r), "none", <<>>) ELSE Continue(r)
                ELSE Return(r, "list", <<>>)]
    /\ UNCHANGED <<store, email_state, default_email, pc, call, loc, out, log, tin, tres, agent, audio>>

\* the MemoryManager with or without its two backends
InitMemory ==
    /\ store = <<>>
    /\ default_email = ""
    /\ email_state = ""
    /\ NoToolCall
    /\ tin = NoInput /\ tres = NoResult
    /\ agent = [s \in Sessions |-> NoAgent]
    /\ audio = NoAudio
    /\ mem \in { [NoMem EXCEPT !.mem0 = m, !.openmemory = o] : m \in BOOLEAN, o \in BOOLEAN }

NextMemory ==
    \/ \E user_id \in Users, max_retries \in 0..MaxRetries : retrieve_memories_begin(user_id, max_retries)
    \/ \E answer \in Answers : openmemory_answered(answer)
    \/ \E answer \in Answers : mem0_answered(answer)

SpecMemory == InitMemory /\ [][NextMemory]_vars

-----------------------------------------------------------------------------
(* Properties.                                                              *)

CancelledAnyCase(st) == st \in {"cancelled", "CANCELLED", "Cancelled"}

\* C1: every tool call (get_all_bookings, get_booking, create_connect_meeting,
\* create_discover_meeting, reschedule_booking, cancel_booking) gives its
\* caller an outcome string, whatever the client and the parsing do: no
\* exception leaves a tool, and a finished call has returned a text.
Thm_C1_ToolsAlwaysReturn ==
    \A s \in Sessions :
        /\ out[s].kind # "raise"
        /\ pc[s] = "done" => (out[s].kind = "return" /\ out[s].msg # "")

\* a cancel request failed with status 500 and the tool returned its text
Wit_C1_FailureReturned ==
    \E s \in Sessions :
        /\ call[s].tool = "cancel_booking" /\ pc[s] = "done"
        /\ Sent(s, "cancel") # {}
        /\ out[s].kind = "return" /\ out[s].exc.status = 500

InGap(t) == MkNaive(2026, 3, 8, 2, 0, 0) <= t /\ t < MkNaive(2026, 3, 8, 3, 0, 0)
\* civil times that occur twice on 2026-11-01 (01:00:00-01:59:59)
InRepeatedHour(t) == MkNaive(2026, 11, 1, 1, 0, 0) <= t /\ t < MkNaive(2026, 11, 1, 2, 0, 0)
\* the UTC instants of the first (daylight-time) and second (standard-time)
\* pass of the repeated hour
InFirstPass(u) == MkNaive(2026, 11, 1, 5, 0, 0) <= u /\ u < MkNaive(2026, 11, 1, 6, 0, 0)
InSecondPass(u) == MkNaive(2026, 11, 1, 6, 0, 0) <= u /\ u < MkNaive(2026, 11, 1, 7, 0, 0)

\* C3 as claimed: every Eastern civil date-time, the spring-forward gap
\* included, comes back unchanged from Eastern -> UTC -> Eastern.
Orig_C3_LocalRoundTrip ==
    (tin.kind = "local" /\ tres.done) => tres.v = tin.v

\* C3 amended: a civil date-time outside the spring-forward gap (the repeated
\* hour of the fall-back included) comes back unchanged from Eastern -> UTC ->
\* Eastern; one inside the gap comes back one hour later.
Thm_C3_LocalRoundTripOutsideGap ==
    (tin.kind = "local" /\ tres.done)
        => tres.v = IF InGap(tin.v) THEN tin.v + SecPerHour ELSE tin.v

\* a civil time of the repeated hour came back unchanged
Wit_C3_RepeatedHourRoundTrip ==
    tin.kind = "local" /\ tres.done /\ InRepeatedHour(tin.v) /\ tres.v = tin.v

\* C4 as claimed: every UTC instant, the repeated hour of the fall-back
\* included, comes back unchanged from UTC -> Eastern -> UTC.
Orig_C4_InstantRoundTrip ==
    (tin.kind = "instant" /\ tres.done) => tres.v = tin.v

\* C4 amended: a UTC instant outside the first (daylight-time) pass of the
\* fall-back repeated hour comes back unchanged from UTC -> Eastern -> UTC;
\* one inside that pass comes back one hour later.
Thm_C4_InstantRoundTripOutsideFirstPass ==
    (tin.kind = "instant" /\ tres.done)
        => tres.v = IF InFirstPass(tin.v) THEN tin.v + SecPerHour ELSE tin.v

\* an instant of the second pass of the repeated hour came back unchanged
Wit_C4_SecondPassRoundTrip ==
    tin.kind = "instant" /\ tres.done /\ InSecondPass(tin.v) /\ tres.v = tin.v

-----------------------------------------------------------------------------
(* Properties of the search by date/time, checked under SpecResolve.        *)

\* session s's call searched the fetched bookings with a text that parses
Searched(s) ==
    /\ call[s].tool \in {"cancel_booking", "reschedule_booking"}
    /\ loc[s].searched
    /\ call[s].text.shape \in { formats[i] : i \in 1..Len(formats) }

\* the civil date-time written in the query text
WrittenCivil(text) ==
    MkNaive(text.Y, text.m, text.d,
            IF text.ap = "" THEN text.h
            ELSE IF text.ap = "PM" THEN (IF text.h = 12 THEN 12 ELSE text.h + 12)
            ELSE (IF text.h = 12 THEN 0 ELSE text.h),
            text.mi, text.s)

\* the query's Eastern time: the one written, and for a wall clock that the
\* spring-forward skips the wall clock of the instant it stands for (one hour
\* later, see C3)
QueryCivil(text) ==
    IF InGap(WrittenCivil(text)) THEN WrittenCivil(text) + SecPerHour ELSE WrittenCivil(text)
QueryMinuteOfDay(text) == (QueryCivil(text) % SecPerDay) \div SecPerMin

\* a booking's start on the Eastern wall clock
HasStart(b) == b.start # NoIso /\ IsoValid(b.start)
EasternStart(b) == FromUtc(FromIsoFormat(b.start))
EasternMinuteOfDay(b) == (EasternStart(b) % SecPerDay) \div SecPerMin
OnQueryDate(b, text) ==
    /\ YearOf(EasternStart(b)) = text.Y
    /\ MonthOf(EasternStart(b)) = text.m
    /\ DayOf(EasternStart(b)) = text.d
DeltaMinutes(b, text) == Abs(EasternMinuteOfDay(b) - QueryMinuteOfDay(text))

\* a candidate the search has to keep: not cancelled, on the date, in the window
Candidate(b, text) ==
    /\ ~CancelledAnyCase(b.status)
    /\ HasStart(b)
    /\ OnQueryDate(b, text)
    /\ DeltaMinutes(b, text) <= 30

KeptBookings(s) == { loc[s].matching[i].booking : i \in 1..Len(loc[s].matching) }
Fetched(s) == { loc[s].bookings[i] : i \in 1..Len(loc[s].bookings) }
IndexOf(s, b) == CHOOSE i \in 1..Len(loc[s].bookings) : loc[s].bookings[i] = b

\* the booking the search selected (the first of the sorted matches)
Selected(s) == loc[s].matching[1].booking
HasSelected(s) == Searched(s) /\ loc[s].matching # <<>>

\* the cancel and reschedule requests of session s
Mutations(s) == Sent(s, "cancel") \cup Sent(s, "reschedule")

\* C5: in the search by date/time, a non-cancelled candidate on the query's
\* Eastern calendar date is kept as a match if and only if its Eastern minute
\* of the day differs from the query's by at most 30.
Thm_C5_MatchWindow ==
    \A s \in Sessions :
        Searched(s) =>
            \A b \in Fetched(s) :
                (~CancelledAnyCase(b.status) /\ HasStart(b) /\ OnQueryDate(b, call[s].text))
                    => (b \in KeptBookings(s) <=> DeltaMinutes(b, call[s].text) <= 30)

\* a candidate at 30 minutes is kept while one at 31 minutes is not
Wit_C5_ThirtyKeptThirtyOneDropped ==
    \E s \in Sessions :
        /\ Searched(s)
        /\ \E b \in KeptBookings(s) : DeltaMinutes(b, call[s].text) = 30
        /\ \E b \in Fetched(s) \ KeptBookings(s) :
              /\ HasStart(b) /\ OnQueryDate(b, call[s].text)
              /\ DeltaMinutes(b, call[s].text) = 31

\* C6: the booking the search selects is on the calendar date written in the
\* query, and every kept booking is; a booking of another date is never
\* selected, whatever its clock time.
Thm_C6_DateExact ==
    \A s \in Sessions :
        Searched(s) =>
            /\ \A b \in KeptBookings(s) : HasStart(b) /\ OnQueryDate(b, call[s].text)
            /\ loc[s].uid # "" => (loc[s].matching # <<>> /\ loc[s].uid = Selected(s).uid)
            /\ \A i \in Mutations(s) : log[i].uid = loc[s].uid

\* a booking of the next day at the query's clock time was fetched, and the
\* booking of the query's date was selected
Wit_C6_OtherDateNotSelected ==
    \E s \in Sessions :
        /\ HasSelected(s)
        /\ \E b \in Fetched(s) :
              /\ HasStart(b) /\ ~OnQueryDate(b, call[s].text)
              /\ DeltaMinutes(b, call[s].text) = 0
        /\ OnQueryDate(Selected(s), call[s].text)
        /\ Mutations(s) # {}

\* C7: when several kept candidates have the smallest deltaMinutes, the search
\* selects the one that comes first in the sequence of fetched bookings.
Thm_C7_TieBreakEarliest ==
    \A s \in Sessions :
        HasSelected(s) =>
            /\ Selected(s) \in Fetched(s)
            /\ \A b \in Fetched(s) :
                  (Candidate(b, call[s].text)
                   /\ DeltaMinutes(b, call[s].text) = DeltaMinutes(Selected(s), call[s].text))
                      => IndexOf(s, Selected(s)) <= IndexOf(s, b)

\* two candidates 30 minutes before and after the query; the first was selected
Wit_C7_TieSelectedFirst ==
    \E s \in Sessions :
        /\ HasSelected(s)
        /\ \E b \in Fetched(s) :
              /\ b # Selected(s) /\ Candidate(b, call[s].text)
              /\ DeltaMinutes(b, call[s].text) = DeltaMinutes(Selected(s), call[s].text)
              /\ EasternMinuteOfDay(b) # EasternMinuteOfDay(Selected(s))

\* C8: a booking whose status is cancelled, in any letter case, is never kept
\* and never selected by the search; right after the search the selected
\* identifier is that of a booking the service holds as not cancelled.
Thm_C8_CancelledNeverSelected ==
    \A s \in Sessions :
        Searched(s) =>
            /\ \A b \in KeptBookings(s) : ~CancelledAnyCase(b.status)
            /\ (loc[s].uid # "" /\ Mutations(s) = {})
                  => ~CancelledAnyCase(Lookup(store, loc[s].uid).status)

\* the service holds a CANCELLED booking at the very time of the query and
\* the search selected another booking
Wit_C8_CancelledClosestSkipped ==
    \E s \in Sessions :
        /\ HasSelected(s) /\ Mutations(s) = {}
        /\ \E i \in 1..Len(store) :
              /\ store[i].status = "CANCELLED"
              /\ HasStart(store[i]) /\ OnQueryDate(store[i], call[s].text)
              /\ DeltaMinutes(store[i], call[s].text) = 0
        /\ DeltaMinutes(Selected(s), call[s].text) > 0

\* C9: the identifier sent in the cancel or reschedule request is that of a
\* kept candidate whose deltaMinutes is less than or equal to that of every
\* other candidate.
Thm_C9_NearestSelected ==
    \A s \in Sessions :
        Searched(s) =>
            \A i \in Mutations(s) :
                /\ loc[s].matching # <<>>
                /\ log[i].uid = Selected(s).uid
                /\ Candidate(Selected(s), call[s].text)
                /\ \A b \in Fetched(s) :
                      Candidate(b, call[s].text)
                          => DeltaMinutes(Selected(s), call[s].text) <= DeltaMinutes(b, call[s].text)

\* a request was sent for the nearer of two candidates, listed second
Wit_C9_NearerListedSecond ==
    \E s \in Sessions :
        /\ HasSelected(s) /\ Mutations(s) # {}
        /\ \E b \in Fetched(s) :
              /\ Candidate(b, call[s].text)
              /\ DeltaMinutes(b, call[s].text) > DeltaMinutes(Selected(s), call[s].text)
              /\ IndexOf(s, b) < IndexOf(s, Selected(s))

\* C10: when no non-cancelled fetched booking lies on the queried date within
\* 30 minutes, cancel_booking and reschedule_booking return the outcome that
\* quotes the query text and asks for the booking UID, and send no cancel or
\* reschedule request.
Thm_C10_NoMatchOutcome ==
    \A s \in Sessions :
        (Searched(s) /\ \A b \in Fetched(s) : ~Candidate(b, call[s].text))
            => /\ pc[s] = "done"
               /\ out[s].kind = "return"
               /\ out[s].msg = "No upcoming booking found"
               /\ out[s].text = call[s].text
               /\ Mutations(s) = {}

\* the only booking is at the query's clock time on the next day: no match
Wit_C10_WrongDateNoMatch ==
    \E s \in Sessions :
        /\ Searched(s) /\ pc[s] = "done"
        /\ Len(loc[s].bookings) = 1
        /\ HasStart(loc[s].bookings[1])
        /\ ~OnQueryDate(loc[s].bookings[1], call[s].text)
        /\ DeltaMinutes(loc[s].bookings[1], call[s].text) = 0
        /\ out[s].msg = "No upcoming booking found"

-----------------------------------------------------------------------------
(* Properties of convert_to_utc_iso, checked under SpecTime.                *)

\* the spelling of the civil date-time tin.v was converted
Converted == tin.kind = "text" /\ tres.done

\* dates of 2026 that lie wholly in standard time (before March 8, after
\* November 1) and wholly in daylight time (March 9 .. October 31)
StandardDate(t) == t < MkNaive(2026, 3, 8, 0, 0, 0) \/ t >= MkNaive(2026, 11, 2, 0, 0, 0)
DaylightDate(t) == MkNaive(2026, 3, 9, 0, 0, 0) <= t /\ t < MkNaive(2026, 11, 1, 0, 0, 0)
\* on the two transition dates: daylight time from 03:00 on March 8 and
\* before 01:00 on November 1
DaylightClock(t) == MkNaive(2026, 3, 8, 3, 0, 0) <= t /\ t < MkNaive(2026, 11, 1, 1, 0, 0)

\* C11: the UTC string of an Eastern civil date-time is the civil value plus
\* 5 hours on a date in standard time and plus 4 hours on a date in daylight
\* time (on a transition date: by the wall clock), carried into the day,
\* month and year, with every field of YYYY-MM-DDTHH:MM:SSZ in its range.
Thm_C11_OffsetOfLocalDate ==
    Converted =>
        /\ tres.v.ok
        /\ IsoValid(tres.v.val)
        /\ tres.v.val.Y \in {2026, 2027}
        /\ StandardDate(tin.v) => FromIsoFormat(tres.v.val) = tin.v + 5 * SecPerHour
        /\ DaylightDate(tin.v) => FromIsoFormat(tres.v.val) = tin.v + 4 * SecPerHour
        /\ FromIsoFormat(tres.v.val)
              = tin.v + (IF DaylightClock(tin.v) THEN 4 ELSE 5) * SecPerHour

\* January 15 12:30:00 gave 17:30:00Z, July 15 23:30:59 gave July 16
\* 03:30:59Z, December 31 23:30:00 gave 2027-01-01T04:30:00Z
Wit_C11_WinterSummerCarry ==
    /\ Converted
    /\ \/ tin.v = MkNaive(2026, 7, 15, 23, 30, 59)
          /\ tres.v.val = [Y |-> 2026, m |-> 7, d |-> 16, H |-> 3, M |-> 30, S |-> 59]
       \/ tin.v = MkNaive(2026, 12, 31, 23, 30, 0)
          /\ tres.v.val = [Y |-> 2027, m |-> 1, d |-> 1, H |-> 4, M |-> 30, S |-> 0]

\* C12: every accepted spelling of one civil date-time (ISO with space or T,
\* slash date with 24-hour or 12-hour clock, long or short month name with
\* 12-hour clock, with or without seconds) parses to that date-time, and so
\* gives the one UTC string of that date-time.
Thm_C12_FormatEquivalence ==
    Converted =>
        /\ tres.v.ok
        /\ tres.v.val = Strftime(ToUtc(tin.v))
        /\ tres.v.val = convert_to_utc_iso(Spell(tin.v, "%Y-%m-%d %H:%M:%S")).val

\* "July 15, 2026 12:30 PM" gave 2026-07-15T16:30:00Z, as "2026-07-15 12:30" does
Wit_C12_LongMonthTwelveHour ==
    /\ Converted
    /\ tin.fmt = "%B %d, %Y %I:%M %p"
    /\ tin.v = MkNaive(2026, 7, 15, 12, 30, 0)
    /\ Spell(tin.v, tin.fmt).h = 12 /\ Spell(tin.v, tin.fmt).ap = "PM"
    /\ tres.v.val = [Y |-> 2026, m |-> 7, d |-> 15, H |-> 16, M |-> 30, S |-> 0]

-----------------------------------------------------------------------------
(* Properties of the tools' error handling, checked under Spec.             *)

\* the text matches none of the formats of convert_to_utc_iso
Unparsable(text) == ~convert_to_utc_iso(text).ok

\* the outcome texts that ask for the time "in Eastern Time format"
AsksEasternFormat ==
    { "Error parsing date/time", "Error parsing old date/time",
      "Error rescheduling booking - invalid time format",
      "Error creating meeting - invalid time format" }

CreateTools == {"create_connect_meeting", "create_discover_meeting"}

\* the text whose conversion the finished call of session s failed on, if any:
\* the start time of a create with an email, the date/time of a search whose
\* list arrived, else the new time of a reschedule that got to convert it
FailedText(s) ==
    IF call[s].tool \in CreateTools
    THEN (IF (call[s].email # "" \/ default_email # "") /\ Unparsable(call[s].text)
          THEN call[s].text ELSE NoText)
    ELSE IF call[s].tool \in {"cancel_booking", "reschedule_booking"} /\ loc[s].searched
            /\ Unparsable(call[s].text)
    THEN call[s].text
    ELSE IF call[s].tool = "reschedule_booking" /\ call[s].newtext # NoText
            /\ loc[s].uid # "" /\ Unparsable(call[s].newtext)
    THEN call[s].newtext
    ELSE NoText

\* C13: when a text matches none of the formats, convert_to_utc_iso raises an
\* error that names that text, and the tool that called it (create,
\* reschedule, cancel) returns an outcome asking for the time in Eastern Time
\* format that embeds the error, without sending a create, reschedule or
\* cancel request.
Thm_C13_ParseFailure ==
    \A s \in Sessions :
        /\ (pc[s] = "done" /\ FailedText(s) # NoText)
              => /\ out[s].kind = "return"
                 /\ out[s].msg \in AsksEasternFormat
                 /\ out[s].exc.type = "ValueError"
                 /\ out[s].exc.text = FailedText(s)
                 /\ Sent(s, "create") \cup Sent(s, "reschedule") \cup Sent(s, "cancel") = {}
        /\ out[s].exc.type = "ValueError"
              => (pc[s] = "done" /\ FailedText(s) # NoText /\ out[s].msg \in AsksEasternFormat)
        /\ FailedText(s) # NoText => pc[s] = "done"

\* reschedule_booking with a booking uid and the new time "July 15, 2026 at
\* 2:00 PM" returned the invalid-time-format outcome naming that text
Wit_C13_NewTimeUnparsable ==
    \E s \in Sessions :
        /\ call[s].tool = "reschedule_booking" /\ call[s].uid = "b1" /\ call[s].newtext = QBad
        /\ pc[s] = "done"
        /\ out[s].msg = "Error rescheduling booking - invalid time format"
        /\ out[s].exc.text = QBad
        /\ Sent(s, "reschedule") = {}

\* the two example texts of cancel_booking's description
DocstringExamples == {Q1, QBad}

\* C14 as claimed: cancel_booking called with either example text of its own
\* description ('2026-07-15 2:00 PM', 'July 15, 2026 at 2:00 PM') parses it
\* to July 15 2026 14:00 Eastern and searches, with no parse-error outcome.
Orig_C14_DocstringFormatsParse ==
    \A s \in Sessions :
        (call[s].tool = "cancel_booking" /\ call[s].uid = ""
            /\ call[s].text \in DocstringExamples /\ loc[s].searched)
            => /\ convert_to_utc_iso(call[s].text).ok
               /\ TargetEastern(convert_to_utc_iso(call[s].text).val) = MkNaive(2026, 7, 15, 14, 0, 0)
               /\ out[s].msg # "Error parsing date/time"

\* the class the claim gives a failed request by its status, and the class of
\* the outcome message a tool returned
StatusClass(status) ==
    IF status = 404 THEN "NotFound" ELSE IF status = 400 THEN "BadRequest" ELSE "Generic"
MsgClass(msg) ==
    IF msg \in {"Error canceling booking - booking not found",
                "Error retrieving booking - booking not found"} THEN "NotFound"
    ELSE IF msg \in {"Error rescheduling booking - bad request",
                     "Error creating meeting - bad request"} THEN "BadRequest"
    ELSE "Generic"

\* session s's call ended because a request of the client failed
ClientFailed(s) == pc[s] = "done" /\ loc[s].e.type = "Exception"

\* C15 as claimed: a tool call that ends on a failed request returns the
\* message of the class of the response status (404 NotFound, 400 BadRequest,
\* any other Generic), whatever text the error body holds.
Orig_C15_ClassByStatus ==
    \A s \in Sessions :
        ClientFailed(s) => MsgClass(out[s].msg) = StatusClass(loc[s].e.status)

\* the requests session s's call has sent
Requests(s) == { i \in 1..Len(log) : log[i].sess = s }

\* session s's call needs an email and has none: no argument (the search of
\* cancel and reschedule takes none), no shared state, no default (the tools
\* are created without an agent instance)
NeedsEmail(s) ==
    \/ call[s].tool = "get_all_bookings"
    \/ call[s].tool \in CreateTools
    \/ call[s].tool \in {"cancel_booking", "reschedule_booking"}
          /\ call[s].uid = "" /\ call[s].text # NoText
NoEmailAvailable(s) ==
    /\ NeedsEmail(s)
    /\ call[s].email = "" /\ email_state = "" /\ default_email = ""

\* C16: a call that needs an email (list, create, cancel or reschedule by
\* date/time) and finds none in its argument, the shared state or the default
\* returns a validation error ("No email address provided"; for a reschedule
\* without a new time, the error that asks for the new time) and sends no
\* request at all.
Thm_C16_MissingEmail ==
    \A s \in Sessions :
        NoEmailAvailable(s) =>
            /\ pc[s] = "done"
            /\ out[s].kind = "return"
            /\ out[s].msg =
                  IF call[s].tool = "reschedule_booking" /\ call[s].newtext = NoText
                  THEN "Error: new_start_time_eastern is required"
                  ELSE "Error: No email address provided"
            /\ Requests(s) = {}

\* cancel_booking by date/time with no email anywhere returned the error
Wit_C16_CancelSearchWithoutEmail ==
    \E s \in Sessions :
        /\ call[s].tool = "cancel_booking" /\ call[s].uid = "" /\ call[s].text = Q1
        /\ email_state = "" /\ default_email = ""
        /\ out[s].msg = "Error: No email address provided"
        /\ log = <<>>

-----------------------------------------------------------------------------
(* Properties of the requests a tool call sends, checked under Spec.        *)

\* the outcomes of a call that the service has carried out
SuccessMsgs ==
    { "Found booking(s)", "No bookings found", "Retrieved booking details",
      "Meeting created successfully", "Booking rescheduled",
      "Booking cancelled successfully", "Booking cancellation processed - please verify" }
Succeeded(s) == pc[s] = "done" /\ out[s].msg \in SuccessMsgs

\* C17 as claimed: a tool call sends exactly one request to the service
\* (none only when it is refused before the first request), cancel_booking
\* and reschedule_booking included, by identifier or by date/time.
Orig_C17_OneRequestPerCall ==
    \A s \in Sessions :
        /\ Cardinality(Requests(s)) <= 1
        /\ Succeeded(s) => Cardinality(Requests(s)) = 1

\* the requests a call sends when nothing stops it: one for get_all_bookings,
\* get_booking, the create tools and a reschedule by identifier; list and
\* reschedule for a reschedule by date/time; lookup and cancel for a cancel
\* by identifier; list, lookup and cancel for a cancel by date/time
FullRequests(s) ==
    CASE call[s].tool = "cancel_booking" -> IF call[s].uid # "" THEN 2 ELSE 3
      [] call[s].tool = "reschedule_booking" -> IF call[s].uid # "" THEN 1 ELSE 2
      [] OTHER -> 1

\* C17 amended: a tool call sends each kind of request (list, lookup, create,
\* reschedule, cancel) at most once and never more than FullRequests in all;
\* a call the service has carried out has sent exactly FullRequests, but for
\* a cancel that stops at "already cancelled", which has not sent the cancel.
Thm_C17_RequestsPerCall ==
    \A s \in Sessions :
        /\ \A op \in {"list", "get", "create", "reschedule", "cancel"} :
               Cardinality(Sent(s, op)) <= 1
        /\ Cardinality(Requests(s)) <= FullRequests(s)
        /\ Succeeded(s) => Cardinality(Requests(s)) = FullRequests(s)
        /\ out[s].msg = "This booking is already cancelled"
              => Cardinality(Requests(s)) = FullRequests(s) - 1

\* a cancel by date/time was carried out with three requests: list, lookup, cancel
Wit_C17_CancelByDateThreeRequests ==
    \E s \in Sessions :
        /\ call[s].tool = "cancel_booking" /\ call[s].uid = ""
        /\ out[s].msg = "Booking cancelled successfully"
        /\ Len(log) = 3
        /\ log[1].op = "list" /\ log[2].op = "get" /\ log[3].op = "cancel"

\* the create, reschedule and cancel requests of session s's call
MutatingRequests(s) == Sent(s, "create") \cup Sent(s, "reschedule") \cup Sent(s, "cancel")

\* the error outcomes of the handlers of create, reschedule and cancel
MutationErrorMsgs ==
    { "Error canceling booking - booking not found", "Error canceling booking",
      "Error rescheduling booking - bad request", "Error rescheduling booking",
      "Error creating meeting - bad request", "Error creating meeting" }

\* the create, reschedule or cancel request of session s's call has failed
\* (a failure of the list request comes before any of them is sent)
MutationFailed(s) == loc[s].e.type = "Exception" /\ MutatingRequests(s) # {}

\* C18: one call of a create tool, reschedule_booking or cancel_booking sends
\* at most one create, reschedule or cancel request; when that request fails
\* the call is over, with an error outcome, and the request was sent once.
Thm_C18_NoRetryOfMutations ==
    \A s \in Sessions :
        /\ Cardinality(MutatingRequests(s)) <= 1
        /\ MutationFailed(s) =>
              /\ pc[s] = "done"
              /\ out[s].kind = "return"
              /\ out[s].msg \in MutationErrorMsgs
              /\ Cardinality(MutatingRequests(s)) = 1
        /\ (pc[s] = "done" /\ MutatingRequests(s) # {} /\ loc[s].e = NoExc) => Succeeded(s)

\* a cancel request failed with status 500: the call returned the error after
\* the one cancel request
Wit_C18_CancelFailedOnce ==
    \E s \in Sessions :
        /\ call[s].tool = "cancel_booking" /\ pc[s] = "done"
        /\ loc[s].e.status = 500
        /\ Cardinality(Sent(s, "cancel")) = 1
        /\ out[s].msg = "Error canceling booking"

\* C19: cancel_booking and reschedule_booking called with a booking
\* identifier send no list request and match nothing, and their lookup,
\* cancel and reschedule requests are for that identifier, also when a
\* date/time is given with it.
Thm_C19_IdentifierSkipsSearch ==
    \A s \in Sessions :
        (call[s].tool \in {"cancel_booking", "reschedule_booking"} /\ call[s].uid # "")
            => /\ Sent(s, "list") = {}
               /\ ~loc[s].searched /\ loc[s].matching = <<>> /\ loc[s].bookings = <<>>
               /\ \A i \in Requests(s) : log[i].uid = call[s].uid
               /\ loc[s].uid \in {"", call[s].uid}

\* cancel_booking was given the identifier "zz" and the date/time of the
\* accepted booking b1: the cancel request went out for "zz"
Wit_C19_IdentifierWithDateTime ==
    \E s \in Sessions :
        /\ call[s].tool = "cancel_booking" /\ call[s].uid = "zz" /\ call[s].text = Q1
        /\ Len(store) >= 1 /\ store[1].uid = "b1" /\ store[1].status = "accepted"
        /\ Matches(store[1], TargetEastern(convert_to_utc_iso(Q1).val))
        /\ \E i \in Sent(s, "cancel") : log[i].uid = "zz"

\* the search of session s's call found no booking to act on: the date/time
\* did not parse, or no booking matched
SearchFailed(s) == loc[s].searched /\ (Unparsable(call[s].text) \/ loc[s].matching = <<>>)

\* the outcome texts of a search that fails
SearchFailureMsgs ==
    { "Error parsing date/time", "Error parsing old date/time", "No upcoming booking found" }

\* C20: reschedule_booking resolves the old appointment, then converts the
\* new time, then sends the reschedule request: when the old date/time does
\* not parse, no booking matches or the new time does not parse, the call
\* returns an outcome text and sends no reschedule request; a reschedule
\* request by date/time comes after the list request, for a booking that
\* matched, with the converted new time.  Likewise cancel_booking sends no
\* lookup or cancel request when its search fails.
Thm_C20_ErrorsStopBeforeMutation ==
    \A s \in Sessions :
        /\ (call[s].tool \in {"reschedule_booking", "cancel_booking"} /\ SearchFailed(s))
              => /\ pc[s] = "done" /\ out[s].kind = "return"
                 /\ out[s].msg \in SearchFailureMsgs
                 /\ Sent(s, "reschedule") \cup Sent(s, "cancel") \cup Sent(s, "get") = {}
        /\ (call[s].tool = "reschedule_booking" /\ Unparsable(call[s].newtext))
              => /\ Sent(s, "reschedule") = {}
                 /\ pc[s] = "done" => out[s].kind = "return"
        /\ (call[s].tool = "reschedule_booking" /\ Sent(s, "reschedule") # {})
              => /\ loc[s].utc = convert_to_utc_iso(call[s].newtext).val
                 /\ call[s].uid = "" =>
                       /\ loc[s].searched /\ loc[s].matching # <<>>
                       /\ \A i \in Sent(s, "list"), j \in Sent(s, "reschedule") : i < j
                       /\ Sent(s, "list") # {}

\* reschedule_booking found the booking of "2026-07-15 2:00 PM", the new time
\* "July 15, 2026 at 2:00 PM" did not parse: outcome text after the list
\* request alone
Wit_C20_NewTimeFailsAfterSearch ==
    \E s \in Sessions :
        /\ call[s].tool = "reschedule_booking" /\ call[s].uid = ""
        /\ call[s].text = Q1 /\ call[s].newtext = QBad
        /\ loc[s].matching # <<>>
        /\ pc[s] = "done"
        /\ out[s].msg = "Error rescheduling booking - invalid time format"
        /\ Len(log) = 1 /\ log[1].op = "list"

\* a reschedule_booking call that the service answered without error
Rescheduled(s) ==
    /\ call[s].tool = "reschedule_booking"
    /\ pc[s] = "done"
    /\ out[s].msg = "Booking rescheduled"

\* C21 as claimed: after a successful reschedule the outcome names the
\* identifier of the new appointment the reschedule request returned, never
\* the identifier of the old appointment (the one the request was sent for).
Orig_C21_ReportsNewIdentifier ==
    \A s \in Sessions :
        Rescheduled(s) =>
            /\ out[s].uid \in ResultUids \ {""}
            /\ out[s].uid # loc[s].uid
            /\ \A i \in Sent(s, "reschedule") : out[s].uid # log[i].uid

\* C22: cancel_booking has no mutation guard.  Its pre-check decides on the
\* status it read alone: whenever a call's lookup shows the booking not
\* cancelled, the call sends the cancel request for that identifier, also
\* while another session's call for the same identifier is between its own
\* pre-check and its cancel request.  So two concurrent calls can both read
\* "not cancelled" and both send the cancel request.
Thm_C22_NoMutationGuard ==
    [][\A s \in Sessions :
          (/\ pc[s] = "cancel_get" /\ pc'[s] # "cancel_get"
           /\ loc'[s].got /\ ~AlreadyCancelled(loc'[s].existing_status))
             => /\ pc'[s] = "cancel_call"
                /\ log' = Append(log, Request(s, "cancel", loc[s].uid))]_vars

\* both sessions read booking b1 as accepted in their pre-check and both sent
\* the cancel request for b1
Wit_C22_BothCancelSameBooking ==
    \A s \in Sessions :
        /\ call[s].tool = "cancel_booking"
        /\ loc[s].uid = "b1"
        /\ loc[s].got /\ loc[s].existing_status = "accepted"
        /\ \E i \in Sent(s, "cancel") : log[i].uid = "b1"

\* session s starts the search of a cancel_booking or reschedule_booking call
\* in this step (it sends its list request)
StartsSearch(s) ==
    /\ pc[s] = "idle"
    /\ pc'[s] \in {"cancel_list", "resched_list"}

\* C23 as claimed: the candidates a session's search fetches depend on that
\* session's own inputs alone: the email a call searches with is the email of
\* the session's own agent at that moment (its default, or the one its own
\* user mentioned), whatever happened in another session (an agent created,
\* an email mentioned by its user).
Orig_C23_SessionIndependence ==
    [][\A s \in Sessions :
          StartsSearch(s) => loc'[s].filter_email = agent[s].user_email]_vars

\* the last event the audio manager handled in this step
Handles(ev) == audio'.events = Append(audio.events, ev)

\* what a session can observe of the audio manager: the flag, the audio
\* output and the calls made on the session
AudioState(a) == <<a.mic_enabled, a.audio_enabled, a.calls>>

\* C24: the agent's audio stays enabled.  After any sequence of mic-muted,
\* mic-unmuted and track-check events no call has set the session's audio
\* output to disabled and the output is enabled; a mute or unmute event
\* changes nothing but mic_enabled (an unmute that changes the flag also
\* calls set_audio_enabled(True)), a mute event makes no call at all, and a
\* repeated mute or unmute event leaves the state as it is and makes no call
\* on the session.
Thm_C24_AudioStaysEnabled ==
    /\ [](/\ audio.audio_enabled
          /\ \A i \in 1..Len(audio.calls) : audio.calls[i] = TRUE)
    /\ [][/\ Handles("muted") =>
                /\ audio'.mic_enabled = FALSE
                /\ audio'.calls = audio.calls
                /\ audio'.audio_enabled = audio.audio_enabled
          /\ Handles("unmuted") =>
                /\ audio'.mic_enabled = TRUE
                /\ audio'.audio_enabled = audio.audio_enabled
                /\ audio'.calls \in {audio.calls, Append(audio.calls, TRUE)}
          /\ (Handles("muted") /\ ~audio.mic_enabled) => AudioState(audio') = AudioState(audio)
          /\ (Handles("unmuted") /\ audio.mic_enabled) => AudioState(audio') = AudioState(audio)]_vars

\* unmute, unmute again, mute, mute again: one call set_audio_enabled(True),
\* the mic flag off, the audio output enabled
Wit_C24_RepeatedMuteAndUnmute ==
    /\ audio.events = <<"unmuted", "unmuted", "muted", "muted">>
    /\ audio.calls = <<TRUE>>
    /\ ~audio.mic_enabled
    /\ audio.audio_enabled

\* the entries of the trace of the retrieve_memories call that are searches
\* of backend
Attempts(backend) == { i \in 1..Len(mem.r.trace) : mem.r.trace[i].call = backend }
Sleeps == Attempts("sleep")

\* the attempts and sleeps the call can still make: it falls with every step
StepsLeft(r) ==
    CASE r.pc = "openmemory" -> 2 * (r.max_retries + 1) - r.attempt + 1
      [] r.pc = "mem0" -> r.max_retries + 1 - r.attempt
      [] OTHER -> 0

\* C25: memory retrieval always ends with a list.  For every max_retries >= 0
\* retrieve_memories searches Mem0 at most max_retries + 1 times, after at
\* most max_retries + 1 searches of OpenMemory; it sleeps only between two
\* attempts on the same backend; it gives back a list and never None or an
\* exception; and every step of the call uses up one of a bounded number of
\* steps, so the call cannot loop forever.
Thm_C25_RetrievalTerminates ==
    /\ [](/\ Cardinality(Attempts("mem0")) <= mem.r.max_retries + 1
          /\ Cardinality(Attempts("openmemory")) <= mem.r.max_retries + 1
          /\ \A i \in Attempts("openmemory"), j \in Attempts("mem0") : i < j
          /\ \A i \in Sleeps :
                /\ i > 1 /\ mem.r.trace[i - 1].call \in {"openmemory", "mem0"}
                /\ mem.r.trace[i - 1].got # "memories"
                /\ i < Len(mem.r.trace) => mem.r.trace[i + 1].call = mem.r.trace[i - 1].call
                /\ i = Len(mem.r.trace) => mem.r.pc = mem.r.trace[i - 1].call
          /\ mem.r.kind \in {"", "list"}
          /\ mem.r.pc = "done" <=> mem.r.kind = "list"
          /\ StepsLeft(mem.r) >= 0)
    /\ [][mem'.r # mem.r /\ mem.r.pc # "idle" => StepsLeft(mem'.r) < StepsLeft(mem.r)]_vars

\* max_retries = 2, both backends set: three searches of OpenMemory, then three
\* of Mem0, a sleep between the attempts, none found anything: the empty list
Wit_C25_AllAttemptsUsed ==
    /\ mem.r.pc = "done" /\ mem.r.max_retries = 2
    /\ Cardinality(Attempts("openmemory")) = 3
    /\ Cardinality(Attempts("mem0")) = 3
    /\ Cardinality(Sleeps) = 4
    /\ mem.r.kind = "list" /\ mem.r.result = <<>>

\* what the last search of OpenMemory gave ("": OpenMemory was not searched)
LastOpenMemory ==
    IF Attempts("openmemory") = {} THEN ""
    ELSE mem.r.trace[CHOOSE i \in Attempts("openmemory") : \A j \in Attempts("openmemory") : j <= i].got

\* OpenMemory is searched first, and before every search of Mem0
OpenMemoryFirst ==
    /\ \A i \in Attempts("openmemory"), j \in Attempts("mem0") : i < j
    /\ (mem.openmemory /\ mem.r.trace # <<>>) => mem.r.trace[1].call = "openmemory"
    /\ ~mem.openmemory => Attempts("openmemory") = {}

\* the call returned what OpenMemory found, and did not search Mem0
ReturnedOpenMemory ==
    /\ mem.r.pc = "done" /\ mem.r.kind = "list"
    /\ mem.r.result # <<>>
    /\ mem.r.trace[Len(mem.r.trace)].call = "openmemory"
    /\ Attempts("mem0") = {}

\* C26 as claimed: OpenMemory is asked first; Mem0 is searched only when
\* OpenMemory is not configured, returned no memories or failed; whenever
\* OpenMemory returns a non-empty result, that result is returned and Mem0 is
\* not searched.
Orig_C26_FallbackOrder ==
    /\ OpenMemoryFirst
    /\ Attempts("mem0") # {} => (~mem.openmemory \/ LastOpenMemory \in {"nothing", "error"})
    /\ LastOpenMemory \in {"memories", "not records"} => ReturnedOpenMemory

\* C26 amended: OpenMemory is asked first; Mem0 is searched only when
\* OpenMemory is not configured, returned no memories, failed, or returned a
\* list that could not be formatted (an entry that is no record); whenever
\* OpenMemory returns a non-empty list of records, that list is returned
\* under the requested user and Mem0 is not searched.
Thm_C26_FallbackOrder ==
    /\ OpenMemoryFirst
    /\ Attempts("mem0") # {} =>
          (~mem.openmemory \/ LastOpenMemory \in {"nothing", "error", "not records"})
    /\ LastOpenMemory = "memories" =>
          /\ ReturnedOpenMemory
          /\ \A i \in 1..Len(mem.r.result) : mem.r.result[i].user_id = mem.r.user_id
    /\ (LastOpenMemory = "not records" /\ mem.mem0) => mem.r.pc = "mem0" \/ Attempts("mem0") # {}

\* both backends configured: OpenMemory found nothing, then memories at its
\* second attempt; they were returned and Mem0 was never searched
Wit_C26_OpenMemoryAnswerReturned ==
    /\ mem.mem0 /\ mem.openmemory
    /\ Cardinality(Attempts("openmemory")) = 2
    /\ LastOpenMemory = "memories"
    /\ ReturnedOpenMemory

\* the user ids the backend's entry of a returned memory carries
CarriedUserIds(m) == {m.answered.uid, m.answered.meta} \ {""}

\* C27 as claimed: every memory retrieve_memories(user_id) returns belongs to
\* that user: the backend's entry of no returned memory carries a user_id
\* other than the requested one, whichever backend answered.
Orig_C27_UserIsolation ==
    mem.r.pc = "done" =>
        \A i \in 1..Len(mem.r.result) : CarriedUserIds(mem.r.result[i]) \subseteq {mem.r.user_id}

\* the batches handed to store_messages that hold the message id
StoredIn(id) == { k \in 1..Len(mem.stored) : \E i \in 1..Len(mem.stored[k].ids) : mem.stored[k].ids[i] = id }

\* C28 as claimed: over a whole session (its user turns, their delayed store
\* tasks in any order, the session-end callback) each conversation message
\* is handed to the memory backend's store operation at most once.
Orig_C28_NoDuplicateStorage ==
    \A id \in 1..MaxMessages : Cardinality(StoredIn(id)) <= 1

\* the UTC instant the query text of session s converts to, the start instant
\* of a booking, and the real time between the two, in seconds
QueryInstant(s) == FromIsoFormat(convert_to_utc_iso(call[s].text).val)
StartInstant(b) == FromIsoFormat(b.start)
Elapsed(s, b) == Abs(StartInstant(b) - QueryInstant(s))

\* C29 as claimed: whenever the search selects a booking, the booking's start
\* instant is within 30 minutes of real elapsed time of the UTC instant the
\* query converts to, on every date, the days of the daylight-saving
\* transitions included.
Orig_C29_AbsoluteCloseness ==
    \A s \in Sessions :
        HasSelected(s) => Elapsed(s, Selected(s)) <= 30 * SecPerMin

\* C29 amended: the search compares Eastern wall clocks to the minute.  A
\* selected booking starts on the query's Eastern date; when the booking's
\* start and the query's instant have the same UTC offset (every pair on a
\* day without a transition), the real time between them is less than 31
\* minutes; on the day of a transition the two may lie on different sides of
\* it, and the real time between them is then less than 91 minutes.
Thm_C29_WallClockCloseness ==
    \A s \in Sessions :
        HasSelected(s) =>
            /\ OnQueryDate(Selected(s), call[s].text)
            /\ OffsetAtUtc(StartInstant(Selected(s))) = OffsetAtUtc(QueryInstant(s))
                  => Elapsed(s, Selected(s)) < 31 * SecPerMin
            /\ Elapsed(s, Selected(s)) < 91 * SecPerMin

\* the query "2026-11-01 01:30" (standard time, 06:30 UTC) selected the booking
\* that starts at 01:30 daylight time (05:30 UTC): same wall clock, one hour of
\* real time apart
Wit_C29_FallBackHourApart ==
    \E s \in Sessions :
        /\ HasSelected(s)
        /\ call[s].text = QFall
        /\ Selected(s).start = Iso(2026, 11, 1, 5, 30, 0)
        /\ Elapsed(s, Selected(s)) = SecPerHour

\* the step in which the service answers the cancel request of session s's call
CancelAnswered(s) == pc[s] = "cancel_call" /\ pc'[s] = "done"
\* the status of the booking that the answer carries
ReturnedStatus(s) == Lookup(store', loc[s].uid).status

\* C30: cancel_booking is the only tool that returns "cancelled successfully",
\* and only after its call has sent the cancel request and no request of the
\* call has failed; when the service answers the cancel request, the outcome
\* is "cancelled successfully" exactly when the request did not fail and the
\* returned booking has status cancelled (in any letter case), "please
\* verify" exactly when it did not fail and the returned status is another
\* one, and an error outcome exactly when the request failed.
Thm_C30_SuccessOnlyAfterCancel ==
    /\ [](\A s \in Sessions :
            out[s].msg = "Booking cancelled successfully" =>
               /\ pc[s] = "done" /\ out[s].kind = "return"
               /\ call[s].tool = "cancel_booking"
               /\ Cardinality(Sent(s, "cancel")) = 1
               /\ loc[s].e = NoExc)
    /\ [][\A s \in Sessions :
            /\ (pc[s] # "cancel_call" /\ out'[s].msg = "Booking cancelled successfully")
                  => out[s].msg = "Booking cancelled successfully"
            /\ CancelAnswered(s) =>
                  /\ out'[s].msg = "Booking cancelled successfully"
                        <=> (loc'[s].e = NoExc /\ Lower(ReturnedStatus(s)) = "cancelled")
                  /\ out'[s].msg = "Booking cancellation processed - please verify"
                        <=> (loc'[s].e = NoExc /\ Lower(ReturnedStatus(s)) # "cancelled")
                  /\ out'[s].msg \in {"Error canceling booking",
                                      "Error canceling booking - booking not found"}
                        <=> loc'[s].e # NoExc]_vars

\* a cancel request was answered with the booking in status cancelled, and
\* the call returned "cancelled successfully" after that one request
Wit_C30_CancelledSuccessfully ==
    \E s \in Sessions :
        /\ call[s].tool = "cancel_booking" /\ pc[s] = "done"
        /\ Cardinality(Sent(s, "cancel")) = 1
        /\ loc[s].e = NoExc
        /\ out[s].msg = "Booking cancelled successfully"
        /\ Lower(Lookup(store, loc[s].uid).status) = "cancelled"

====
